---- MODULE Spec2Model ----
(***************************************************************************)
(* FEATMY-V2: the client-side Router (src/js/router.js) and the           *)
(* AuthManager session lifecycle (src/js/auth.js).                        *)
(*                                                                         *)
(* JavaScript is run-to-completion: an action of this model is the code    *)
(* that runs between two suspension points (await of a fetch, a timer, a   *)
(* provider or store call).  Strings that the code splits or inspects      *)
(* (paths, e-mails) are sequences of tokens: "/personal/student/:id" is    *)
(* << "/", "personal", "/", "student", "/", ":", "id" >>.                   *)
(***************************************************************************)
EXTENDS Naturals, Sequences, FiniteSets, TLC

\* ------------------------------------------------------------------ bounds
\* navigation requests from outside the Router in one behaviour: calls of
\* router.goTo and its helpers, and changes of the fragment by the user
MaxRequests == 2
\* calls of AuthManager operations (login, createStudentAccount,
\* checkPendingStudent, activateStudentAccount) in one behaviour
MaxCalls == 3
\* calls to the identity provider or the document store that fail (network,
\* permission) in one behaviour
MaxFaults == 1
\* calls of AuthManager operations in one behaviour of the session
\* specification, which has all the operations
MaxSessionCalls == 2
\* calls of authManager.initialize() that are handed the same promise
MaxInitCalls == 2
\* calls of AuthManager operations in one behaviour of the operations
\* specification, which starts from several stores
MaxOpsCalls == 1
\* callbacks registered with AuthManager.onAuthStateChanged, and operations
\* called, in one behaviour of the listeners specification
MaxListeners == 2
MaxListenCalls == 1
\* calls of activateStudentAccount in one behaviour of the activation
\* specification
MaxActivateCalls == 2
\* calls of checkPendingStudent and activateStudentAccount in one behaviour of
\* the resumed activation specification
MaxResumeCalls == 2
\* calls of login in one behaviour of the login specification
MaxLoginCalls == 2
\* calls of activateStudentAccount in one behaviour of the specification of
\* the activation with any address
MaxOtherCalls == 2
\* calls of deleteStudent and activateStudentAccount in one behaviour of the
\* deletion specification
MaxDeleteCalls == 2
\* segments of the paths matchRoute is called with on its own
MaxSegments == 4

\* ------------------------------------------------------------------ values
NULL == "null"
\* currentPath === null (router.js:40) in the token representation
NoPath == << "null" >>

\* ------------------------------------------------------------------ paths
P_Root              == << "/" >>
P_Login             == << "/", "login" >>
P_Signup            == << "/", "signup" >>
P_PrimeiroAcesso    == << "/", "primeiro-acesso" >>
P_PersonalDashboard == << "/", "personal", "/", "dashboard" >>
P_PersonalExercises == << "/", "personal", "/", "exercises" >>
P_CreateWorkout     == << "/", "personal", "/", "create-workout" >>
P_StudentDetails    == << "/", "personal", "/", "student", "/", ":", "id" >>
P_PersonalFeedbacks == << "/", "personal", "/", "feedbacks" >>
P_StudentDashboard  == << "/", "student", "/", "dashboard" >>
P_ViewWorkout       == << "/", "student", "/", "view-workout" >>
P_Volume            == << "/", "personal", "/", "volume", "/", ":", "id" >>

\* this.routes, in insertion order (Object.entries order)
routes ==
  << [pattern |-> P_Root,              file |-> "pages/login.html"],
     [pattern |-> P_Login,             file |-> "pages/login.html"],
     [pattern |-> P_Signup,            file |-> "pages/signup.html"],
     [pattern |-> P_PrimeiroAcesso,    file |-> "pages/primeiro-acesso.html"],
     [pattern |-> P_PersonalDashboard, file |-> "pages/personal/dashboard.html"],
     [pattern |-> P_PersonalExercises, file |-> "pages/personal/exercises.html"],
     [pattern |-> P_CreateWorkout,     file |-> "pages/personal/create-workout.html"],
     [pattern |-> P_StudentDetails,    file |-> "pages/personal/student-details.html"],
     [pattern |-> P_PersonalFeedbacks, file |-> "pages/personal/feedbacks.html"],
     [pattern |-> P_StudentDashboard,  file |-> "pages/student/dashboard.html"],
     [pattern |-> P_ViewWorkout,       file |-> "pages/student/view-workout.html"],
     [pattern |-> P_Volume,            file |-> "pages/personal/volume-analysis.html"] >>

\* this.protectedRoutes, in insertion order
protectedRoutes ==
  << [pattern |-> P_PersonalDashboard, type |-> "personal"],
     [pattern |-> P_PersonalExercises, type |-> "personal"],
     [pattern |-> P_CreateWorkout,     type |-> "personal"],
     [pattern |-> P_StudentDetails,    type |-> "personal"],
     [pattern |-> P_PersonalFeedbacks, type |-> "personal"],
     [pattern |-> P_StudentDashboard,  type |-> "student"],
     [pattern |-> P_Volume,            type |-> "personal"],
     [pattern |-> P_ViewWorkout,       type |-> "student"] >>

\* this.publicRoutes
publicRoutes == { P_Login, P_Signup, P_Root, P_PrimeiroAcesso }

\* ------------------------------------------------------------------ strings
\* s.startsWith(t) for a one-token t
StartsWith(s, t) == Len(s) > 0 /\ s[1] = t

\* s.includes(t) for a one-token t
Includes(s, t) == \E i \in 1..Len(s) : s[i] = t

\* s.split('/'): the segments between separators, empty segments included
RECURSIVE Split(_)
Split(s) ==
  IF ~Includes(s, "/") THEN << s >>
  ELSE LET i == CHOOSE k \in 1..Len(s) : s[k] = "/" /\ \A j \in 1..(k-1) : s[j] # "/"
       IN  << SubSeq(s, 1, i-1) >> \o Split(SubSeq(s, i+1, Len(s)))

\* SegmentsMatch without the comparison of the numbers of segments
SegmentsMatchNoLength(route, path) ==
  LET routeParts == Split(route)
      pathParts  == Split(path)
  IN  /\ Len(routeParts) <= Len(pathParts)
      /\ \A i \in 1..Len(routeParts) :
            StartsWith(routeParts[i], ":") \/ routeParts[i] = pathParts[i]

\* the loop body of matchRoute / getRequiredType: do the segments of route match path's
SegmentsMatch(route, path) ==
  LET routeParts == Split(route)
      pathParts  == Split(path)
  IN  /\ Len(routeParts) = Len(pathParts)
      /\ \A i \in 1..Len(routeParts) :
            StartsWith(routeParts[i], ":") \/ routeParts[i] = pathParts[i]

\* params[routeParts[i].slice(1)] = pathParts[i], as a set of <<name, value>>
ParamsOf(route, path) ==
  LET routeParts == Split(route)
      pathParts  == Split(path)
  IN  { << Tail(routeParts[i]), pathParts[i] >> :
          i \in { k \in 1..Len(routeParts) : StartsWith(routeParts[k], ":") } }

\* matchRoute(path): {route, params} or null (route = NoPath)
matchRoute(path) ==
  IF \E i \in 1..Len(routes) : routes[i].pattern = path
    THEN [route |-> path, params |-> {}]
  ELSE LET hits == { i \in 1..Len(routes) :
                       /\ Includes(routes[i].pattern, ":")
                       /\ SegmentsMatch(routes[i].pattern, path) }
       IN  IF hits = {} THEN [route |-> NoPath, params |-> {}]
           ELSE LET first == CHOOSE i \in hits : \A j \in hits : i <= j
                IN  [route  |-> routes[first].pattern,
                     params |-> ParamsOf(routes[first].pattern, path)]

\* matchRoute has not been called yet
Pending == [route |-> << "pending" >>, params |-> {}]

\* the resource of the last route of the table, whatever the route
PageOfLast(route) == routes[Len(routes)].file

\* this.routes[route]
PageOf(route) ==
  LET i == CHOOSE k \in 1..Len(routes) : routes[k].pattern = route
  IN  routes[i].file

\* getRequiredType(path): the required role or null
getRequiredType(path) ==
  IF \E i \in 1..Len(protectedRoutes) : protectedRoutes[i].pattern = path
    THEN LET i == CHOOSE k \in 1..Len(protectedRoutes) : protectedRoutes[k].pattern = path
         IN  protectedRoutes[i].type
  ELSE LET hits == { i \in 1..Len(protectedRoutes) :
                       /\ Includes(protectedRoutes[i].pattern, ":")
                       /\ SegmentsMatch(protectedRoutes[i].pattern, path) }
       IN  IF hits = {} THEN NULL
           ELSE protectedRoutes[CHOOSE i \in hits : \A j \in hits : i <= j].type

\* if (!path.startsWith('/')) path = '/' + path
NormalizePath(path) == IF StartsWith(path, "/") THEN path ELSE << "/" >> \o path

\* a path with a parameter, one that matches no pattern, and the empty string
\* (location.hash.slice(1) of "")
P_Student42 == << "/", "personal", "/", "student", "/", "42" >>
P_Unknown   == << "/", "nope" >>
P_Empty     == << >>
\* the paths requested from outside in the model: a public one, the two
\* dashboards (protected, one per role) and one that matches no pattern; the
\* start without a fragment adds "/"
NavPaths == { P_Login, P_PersonalDashboard, P_StudentDashboard, P_Unknown }
\* the fragment the application is opened with: none, or a protected path with
\* a parameter
StartHashes == { P_Empty, P_Student42 }


\* ------------------------------------------------------------------ state
VARIABLES
  \* AuthManager session (auth.js:14-19)
  currentUser, currentUserType, isInitialized,
  \* Router fields (router.js:38-42)
  isReady, authReady, currentPath, navigationQueue, isNavigating,
  \* window.location.hash without its leading '#', and the hashchange/popstate
  \* events dispatched but not yet handled
  hash, hashEvents,
  \* window.routeParams
  routeParams,
  \* Router.init: "start", "waiting" (inside waitForAuth), "done"
  initPc,
  \* the while loop of navigate: "idle", "next" (about to test the queue),
  \* "await" (awaiting _navigate)
  loopPc,
  \* the running _navigate: "none", "waitAuth", "guard", "load"; and its path
  navPc, navPath,
  \* the loadPage executions in progress: [path, page, phase, awaited]
  loads,
  \* history: the number of navigation requests made from outside so far; the
  \* paths navigate() was called with since the running _navigate began, and
  \* Len(navigationQueue) then
  requests, arrivedNow, qBase,
  \* history: the guard decision of _navigate taken by the step that led to this
  \* state (NoNav after any other step); rep: it repeats publicRedirect
  lastNav,
  \* history: the path and target of the latest redirect away from a public route
  publicRedirect

VARIABLES
  \* identity provider: the uid of auth.currentUser, and the accounts by e-mail
  authUser, accounts,
  \* document store: the collections users and pendingActivations by document
  \* id, and the number of ids db.collection('users').doc() has handed out
  users, pendingActivations, docSeq,
  \* AuthManager.initializationPromise is set (auth.js:19)
  initializationPromise,
  \* the subscriptions made with auth.onAuthStateChanged, each with the promise
  \* made with it (auth.js:28-31): the `resolved` flag, and how many calls of
  \* initialize() were handed the promise
  subs,
  \* identity changes the provider has still to deliver: [sub, user]
  notifications,
  \* runs of the subscription callback awaiting the profile record (auth.js:35)
  callbacks,
  \* the AuthManager operations in progress, by caller: arguments, locals and the
  \* await the operation is at
  calls,
  \* history: the operations that have returned, with arguments and result
  results,
  \* history: the provider or store calls that have failed so far
  faults

VARIABLES
  \* a call of matchRoute on its own: the path it is given, and what it returns
  matchPath, matchResult

VARIABLES
  \* AuthManager.listeners (auth.js:16): for each callback registered with
  \* onAuthStateChanged, whether it throws when it is called
  listeners,
  \* history: for each listener, how many times it has been called and the
  \* arguments of its latest call
  heard

sessionVars == << currentUser, currentUserType, isInitialized >>
queueVars   == << navigationQueue, loopPc, arrivedNow >>
navVars     == << isNavigating, navPc, navPath, qBase >>
hashVars    == << hash, hashEvents >>
pageVars    == << currentPath, routeParams, loads >>
readyVars   == << isReady, authReady, initPc >>
routerVars  == << queueVars, navVars, hashVars, pageVars, readyVars, requests,
                  lastNav, publicRedirect >>
providerVars == << authUser, accounts >>
storeVars   == << users, pendingActivations, docSeq >>
subVars     == << initializationPromise, subs >>
authVars    == << providerVars, storeVars, subVars, notifications, callbacks, calls,
                  results, faults >>
\* the functions that are called on their own: argument and result
pureVars    == << matchPath, matchResult >>
listenVars  == << listeners, heard >>
vars == << sessionVars, routerVars, authVars, pureVars, listenVars >>

\* isAuthenticated() (auth.js:404)
isAuthenticated == currentUser # NULL

\* the identity the session carries in the Router specification
U_Any == "uid"

NoNav == [path |-> NoPath, auth |-> FALSE, type |-> NULL, kind |-> "none",
          to |-> NoPath, rep |-> FALSE]

\* every step but a guard decision of _navigate leaves no decision behind
NoDecision == lastNav' = NoNav /\ UNCHANGED publicRedirect

RouterInit ==
  /\ isReady = FALSE /\ authReady = FALSE
  /\ currentPath = NoPath
  /\ navigationQueue = << >>
  /\ isNavigating = FALSE
  /\ hash \in StartHashes
  /\ hashEvents = 0
  /\ routeParams = {}
  /\ initPc = "start"
  /\ loopPc = "idle"
  /\ navPc = "none" /\ navPath = NoPath
  /\ loads = << >>
  /\ requests = 0 /\ arrivedNow = << >> /\ qBase = 0
  /\ lastNav = NoNav
  /\ publicRedirect = << NoPath, NoPath >>

SessionInit ==
  /\ currentUser = NULL
  /\ currentUserType = NULL
  /\ isInitialized = FALSE

\* No synchronous stretch of Router code is under way: tasks (events, timers,
\* responses) are only dispatched between two such stretches.
Quiescent == loopPc # "next" /\ navPc # "guard"

\* ------------------------------------------------------------------ navigate
\* Enqueue without the comparison with the tail of the queue
EnqueueAlways(queue, path) == Append(queue, path)

\* Enqueue putting the path at the head of the queue
EnqueueFront(queue, path) ==
  IF Len(queue) = 0 \/ queue[Len(queue)] # path THEN << path >> \o queue ELSE queue

\* the de-duplicating push of navigate (router.js:152-154)
Enqueue(queue, path) ==
  IF Len(queue) = 0 \/ queue[Len(queue)] # path THEN Append(queue, path) ELSE queue

\* navigate(path) up to the while loop (router.js:146-159)
Navigate(path) ==
  /\ arrivedNow' = IF isNavigating THEN Append(arrivedNow, path) ELSE << >>
  /\ IF isNavigating /\ currentPath = path
       THEN UNCHANGED << navigationQueue, loopPc >>
       ELSE /\ navigationQueue' = Enqueue(navigationQueue, path)
            /\ loopPc' = IF isNavigating THEN loopPc ELSE "next"

\* window.location.hash = '#' + path: a hashchange event follows when it changes
SetHash(path) ==
  IF hash = path
    THEN UNCHANGED hashVars
    ELSE hash' = path /\ hashEvents' = hashEvents + 1

\* router.goTo(path) and the goToX helpers, from page scripts or other callers
\* (router.js:318-327)
NavigateCall(path) ==
  /\ Quiescent
  /\ requests < MaxRequests
  /\ requests' = requests + 1
  /\ Navigate(path)
  /\ NoDecision
  /\ UNCHANGED << sessionVars, navVars, hashVars, pageVars, readyVars >>
  /\ UNCHANGED << authVars, pureVars, listenVars >>

\* the hashchange and popstate listeners without the test of authReady
HashChangeEventAlways ==
  /\ Quiescent
  /\ hashEvents > 0
  /\ hashEvents' = hashEvents - 1
  /\ Navigate(hash)
  /\ NoDecision
  /\ UNCHANGED << sessionVars, navVars, hash, pageVars, readyVars, requests >>
  /\ UNCHANGED << authVars, pureVars, listenVars >>

\* the hashchange and popstate listeners (router.js:44-54)
HashChangeEvent ==
  /\ Quiescent
  /\ hashEvents > 0
  /\ hashEvents' = hashEvents - 1
  /\ IF authReady THEN Navigate(hash) ELSE UNCHANGED queueVars
  /\ NoDecision
  /\ UNCHANGED << sessionVars, navVars, hash, pageVars, readyVars, requests >>
  /\ UNCHANGED << authVars, pureVars, listenVars >>

\* the user changes the fragment: by editing it or following a link (one
\* hashchange event), or by going back or forward in history (a popstate and a
\* hashchange event)
UserHashChange(path, events) ==
  /\ Quiescent
  /\ requests < MaxRequests
  /\ requests' = requests + 1
  /\ path # hash
  /\ hash' = path
  /\ hashEvents' = hashEvents + events
  /\ NoDecision
  /\ UNCHANGED << sessionVars, queueVars, navVars, pageVars, readyVars >>
  /\ UNCHANGED << authVars, pureVars, listenVars >>

\* ------------------------------------------------------------------ _navigate
\* the dashboard a redirect goes to (router.js:198-200 and 217-219)
RedirectPath(type) ==
  IF type = "personal" THEN P_PersonalDashboard ELSE P_StudentDashboard

Redirect(to) == [kind |-> "redirect", to |-> to]
Proceed      == [kind |-> "proceed",  to |-> NoPath]

\* GuardDecision without the login check of a protected route
GuardDecisionNoLoginCheck(path, auth, type) ==
  LET requiredType == getRequiredType(path)
  IN  IF requiredType # NULL /\ auth /\ type # requiredType /\ path # RedirectPath(type)
        THEN Redirect(RedirectPath(type))
      ELSE IF path \in publicRoutes /\ auth /\ type # NULL /\ path # RedirectPath(type)
        THEN Redirect(RedirectPath(type))
      ELSE Proceed

\* GuardDecision without the redirect of a signed-in user away from a public route
GuardDecisionNoPublicRedirect(path, auth, type) ==
  LET requiredType == getRequiredType(path)
  IN  IF requiredType # NULL /\ ~auth
        THEN Redirect(P_Login)
      ELSE IF requiredType # NULL /\ type # requiredType /\ path # RedirectPath(type)
        THEN Redirect(RedirectPath(type))
      ELSE Proceed

\* GuardDecision redirecting from a public route whatever the role (no userType test)
GuardDecisionAnyRole(path, auth, type) ==
  LET requiredType == getRequiredType(path)
  IN  IF requiredType # NULL /\ ~auth
        THEN Redirect(P_Login)
      ELSE IF requiredType # NULL /\ type # requiredType /\ path # RedirectPath(type)
        THEN Redirect(RedirectPath(type))
      ELSE IF path \in publicRoutes /\ auth /\ path # RedirectPath(type)
        THEN Redirect(RedirectPath(type))
      ELSE Proceed

\* GuardDecision redirecting a role mismatch also when the path is the dashboard
\* the redirect goes to (no path !== redirectPath test)
GuardDecisionNoSelfTest(path, auth, type) ==
  LET requiredType == getRequiredType(path)
  IN  IF requiredType # NULL /\ ~auth
        THEN Redirect(P_Login)
      ELSE IF requiredType # NULL /\ type # requiredType
        THEN Redirect(RedirectPath(type))
      ELSE IF path \in publicRoutes /\ auth /\ type # NULL /\ path # RedirectPath(type)
        THEN Redirect(RedirectPath(type))
      ELSE Proceed

\* the guards of _navigate, in order (router.js:181-226): a redirect or go on to load
GuardDecision(path, auth, type) ==
  LET requiredType == getRequiredType(path)
  IN  IF requiredType # NULL /\ ~auth
        THEN Redirect(P_Login)
      ELSE IF requiredType # NULL /\ type # requiredType /\ path # RedirectPath(type)
        THEN Redirect(RedirectPath(type))
      ELSE IF path \in publicRoutes /\ auth /\ type # NULL /\ path # RedirectPath(type)
        THEN Redirect(RedirectPath(type))
      ELSE Proceed

\* the head of the while loop and _navigate up to its first suspension
\* (router.js:161-179; waitForAuth resolves at once when AuthManager is
\* initialized, router.js:61-66)
NavStart ==
  /\ loopPc = "next"
  /\ IF navigationQueue = << >>
       THEN /\ loopPc' = "idle"
            /\ UNCHANGED << navigationQueue, arrivedNow, navVars, authReady >>
       ELSE /\ loopPc' = "await"
            /\ navigationQueue' = Tail(navigationQueue)
            /\ isNavigating' = TRUE
            /\ navPath' = NormalizePath(Head(navigationQueue))
            /\ arrivedNow' = << >>
            /\ qBase' = Len(navigationQueue) - 1
            /\ authReady' = (authReady \/ isInitialized)
            /\ navPc' = IF authReady \/ isInitialized THEN "guard" ELSE "waitAuth"
  /\ NoDecision
  /\ UNCHANGED << sessionVars, requests, hashVars, pageVars, isReady, initPc >>
  /\ UNCHANGED << authVars, pureVars, listenVars >>

\* waitForAuth called by _navigate: the interval sees isInitialized (router.js:68-75)
NavWaitPoll ==
  /\ navPc = "waitAuth"
  /\ isInitialized
  /\ authReady' = TRUE
  /\ navPc' = "guard"
  /\ NoDecision
  /\ UNCHANGED << sessionVars, queueVars, requests, isNavigating, navPath, qBase,
                  hashVars, pageVars, isReady, initPc >>
  /\ UNCHANGED << authVars, pureVars, listenVars >>

\* waitForAuth called by _navigate: the 10 s timeout fires (router.js:77-82)
NavWaitTimeout ==
  /\ navPc = "waitAuth"
  /\ authReady' = TRUE
  /\ navPc' = "guard"
  /\ NoDecision
  /\ UNCHANGED << sessionVars, queueVars, requests, isNavigating, navPath, qBase,
                  hashVars, pageVars, isReady, initPc >>
  /\ UNCHANGED << authVars, pureVars, listenVars >>

\* a loadPage execution that found its route and awaits the fetch (router.js:249-255)
NewLoad(path, awaited) ==
  [path |-> path, page |-> PageOf(matchRoute(path).route), phase |-> "fetch",
   awaited |-> awaited]

\* the end of _navigate without the finally block
NavEndsBusy ==
  /\ isNavigating' = isNavigating
  /\ navPc' = "none"
  /\ loopPc' = "next"
  /\ arrivedNow' = << >>
  /\ qBase' = 0

\* the end of _navigate: finally, and back to the while loop (router.js:235-237, 161)
NavEnds ==
  /\ isNavigating' = FALSE
  /\ navPc' = "none"
  /\ loopPc' = "next"
  /\ arrivedNow' = << >>
  /\ qBase' = 0

\* _navigate from the guards to the start of the page load (router.js:181-232,
\* loadPage router.js:240-255). A path that matches no route starts
\* loadPage('/login') without awaiting it (router.js:245-246): loadPage(path)
\* returns, currentPath is set and _navigate ends while that load goes on.
NavGuard ==
  /\ navPc = "guard"
  /\ LET d == GuardDecision(navPath, isAuthenticated, currentUserType)
         fromPublic == d.kind = "redirect" /\ navPath \in publicRoutes
         rec(kind) == [path |-> navPath, auth |-> isAuthenticated,
                       type |-> currentUserType, kind |-> kind, to |-> d.to,
                       rep |-> fromPublic /\ publicRedirect = << navPath, d.to >>]
     IN
     /\ publicRedirect' = IF fromPublic THEN << navPath, d.to >> ELSE publicRedirect
     /\ \/ /\ d.kind = "redirect"
           /\ SetHash(d.to)
           /\ NavEnds
           /\ lastNav' = rec("redirect")
           /\ UNCHANGED pageVars
        \/ /\ d.kind = "proceed" /\ currentPath = navPath
           /\ NavEnds
           /\ lastNav' = rec("noop")
           /\ UNCHANGED << pageVars, hashVars >>
        \/ /\ d.kind = "proceed" /\ currentPath # navPath
           /\ matchRoute(navPath).route = NoPath
           /\ loads' = Append(loads, NewLoad(P_Login, FALSE))
           /\ routeParams' = matchRoute(P_Login).params
           /\ currentPath' = navPath
           /\ NavEnds
           /\ lastNav' = rec("fallback")
           /\ UNCHANGED hashVars
        \/ /\ d.kind = "proceed" /\ currentPath # navPath
           /\ matchRoute(navPath).route # NoPath
           /\ loads' = Append(loads, NewLoad(navPath, TRUE))
           /\ routeParams' = matchRoute(navPath).params
           /\ navPc' = "load"
           /\ lastNav' = rec("load")
           /\ UNCHANGED << currentPath, isNavigating, loopPc, arrivedNow, qBase,
                           hashVars >>
  /\ UNCHANGED << sessionVars, navigationQueue, requests, navPath, readyVars >>
  /\ UNCHANGED << authVars, pureVars, listenVars >>

\* ------------------------------------------------------------------ loadPage
RemoveAt(seq, i) == SubSeq(seq, 1, i-1) \o SubSeq(seq, i+1, Len(seq))

\* loadPage(path) has returned: _navigate sets currentPath when it awaited it
\* (router.js:230-237)
LoadReturns(i) ==
  /\ loads' = RemoveAt(loads, i)
  /\ IF loads[i].awaited
       THEN currentPath' = loads[i].path /\ NavEnds
       ELSE UNCHANGED << currentPath, isNavigating, navPc, loopPc, arrivedNow, qBase >>

\* the fetch answers: the container is emptied (router.js:255-270), or the error
\* panel is rendered and loadPage returns normally (router.js:257-259, 298-315).
\* What #app shows is not part of the state: no decision of the Router reads it.
LoadFetch(i, ok) ==
  /\ Quiescent
  /\ i \in 1..Len(loads)
  /\ loads[i].phase = "fetch"
  /\ IF ok
       THEN /\ loads' = [loads EXCEPT ![i].phase = "mount"]
            /\ UNCHANGED << currentPath, isNavigating, navPc, loopPc, arrivedNow,
                            qBase >>
       ELSE LoadReturns(i)
  /\ NoDecision
  /\ UNCHANGED << sessionVars, navigationQueue, requests, navPath, hashVars,
                  routeParams, readyVars >>
  /\ UNCHANGED << authVars, pureVars, listenVars >>

\* after 50 ms the fetched html is put into the container (router.js:272-277)
LoadMount(i) ==
  /\ Quiescent
  /\ i \in 1..Len(loads)
  /\ loads[i].phase = "mount"
  /\ loads' = [loads EXCEPT ![i].phase = "scripts"]
  /\ NoDecision
  /\ UNCHANGED << sessionVars, queueVars, requests, navVars, hashVars, currentPath,
                  routeParams, readyVars >>
  /\ UNCHANGED << authVars, pureVars, listenVars >>

\* the page's scripts have run, the hash is synchronised and loadPage returns
\* (router.js:279-297); router calls made by the scripts are NavigateCall steps
LoadFinish(i) ==
  /\ Quiescent
  /\ i \in 1..Len(loads)
  /\ loads[i].phase = "scripts"
  /\ SetHash(loads[i].path)
  /\ LoadReturns(i)
  /\ NoDecision
  /\ UNCHANGED << sessionVars, navigationQueue, requests, navPath, routeParams,
                  readyVars >>
  /\ UNCHANGED << authVars, pureVars, listenVars >>

\* ------------------------------------------------------------------ init
\* location.hash.slice(1) || '/'
InitialPath == IF hash = P_Empty THEN P_Root ELSE hash

\* Router.init on DOMContentLoaded (router.js:329-336, 342-345)
RouterStart ==
  /\ Quiescent
  /\ initPc = "start"
  /\ IF isInitialized
       THEN /\ authReady' = TRUE
            /\ isReady' = TRUE
            /\ initPc' = "done"
            /\ Navigate(InitialPath)
       ELSE /\ initPc' = "waiting"
            /\ UNCHANGED << authReady, isReady, queueVars >>
  /\ NoDecision
  /\ UNCHANGED << sessionVars, navVars, hashVars, pageVars, requests >>
  /\ UNCHANGED << authVars, pureVars, listenVars >>

\* waitForAuth called by init: the interval sees isInitialized (router.js:68-75)
InitWaitPoll ==
  /\ Quiescent
  /\ initPc = "waiting"
  /\ isInitialized
  /\ authReady' = TRUE
  /\ isReady' = TRUE
  /\ initPc' = "done"
  /\ Navigate(InitialPath)
  /\ NoDecision
  /\ UNCHANGED << sessionVars, navVars, hashVars, pageVars, requests >>
  /\ UNCHANGED << authVars, pureVars, listenVars >>

\* the 10 s timeout of waitForAuth resolving without setting authReady
InitWaitTimeoutNoFlag ==
  /\ Quiescent
  /\ initPc = "waiting"
  /\ authReady' = authReady
  /\ isReady' = TRUE
  /\ initPc' = "done"
  /\ Navigate(InitialPath)
  /\ NoDecision
  /\ UNCHANGED << sessionVars, navVars, hashVars, pageVars, requests >>
  /\ UNCHANGED << authVars, pureVars, listenVars >>

\* waitForAuth called by init: the 10 s timeout fires (router.js:77-82)
InitWaitTimeout ==
  /\ Quiescent
  /\ initPc = "waiting"
  /\ authReady' = TRUE
  /\ isReady' = TRUE
  /\ initPc' = "done"
  /\ Navigate(InitialPath)
  /\ NoDecision
  /\ UNCHANGED << sessionVars, navVars, hashVars, pageVars, requests >>
  /\ UNCHANGED << authVars, pureVars, listenVars >>

\* ------------------------------------------------------------------ session, as the Router sees it
\* One write of AuthManager to the session: currentUser = user (auth.js:33),
\* currentUserType = role or null (auth.js:36-38), both cleared (auth.js:41-42,
\* 390-391), both set (auth.js:380-381).  The Router reads the session in the
\* guards of _navigate only, so a write matters to it only as the latest write
\* before a guard: the writes are taken there, which keeps the state space small
\* without losing any session a guard can see.
SessionChange(user, type) ==
  /\ navPc = "guard"
  /\ << user, type >> # << currentUser, currentUserType >>
  /\ \/ user = currentUser
     \/ type = currentUserType
     \/ user = NULL /\ type = NULL
     \/ user # NULL /\ type # NULL
  /\ currentUser' = user
  /\ currentUserType' = type
  /\ lastNav' = NoNav
  /\ UNCHANGED << isInitialized, queueVars, navVars, hashVars, pageVars, readyVars,
                  requests, publicRedirect >>
  /\ UNCHANGED << authVars, pureVars, listenVars >>

\* the first identity-change notification has been processed (auth.js:47-51)
AuthInitialized ==
  /\ Quiescent
  /\ ~isInitialized
  /\ isInitialized' = TRUE
  /\ lastNav' = NoNav
  /\ UNCHANGED << currentUser, currentUserType, queueVars, navVars, hashVars,
                  pageVars, readyVars, requests, publicRedirect >>
  /\ UNCHANGED << authVars, pureVars, listenVars >>

\* ------------------------------------------------------------------ AuthManager: values
\* identities (uid of the provider) and document ids
U_Personal == "uidPersonal"
U_Inactive == "uidInactive"
U_Student  == "uidStudent"
U_Signup   == "uidSignup"
\* the ids db.collection('users').doc() hands out, in order (auth.js:130)
ProvIds    == << "doc1", "doc2" >>
DocIds     == { U_Personal, U_Inactive, U_Student, U_Signup } \cup { ProvIds[i] : i \in 1..Len(ProvIds) }

\* e-mail addresses, names and passwords are sequences of characters
E_Trainer    == << "t", "@", "x" >>
E_Inactive   == << "i", "@", "x" >>
E_Student    == << "a", "@", "x" >>
\* the address of somebody who signs up as a trainer
E_Signup     == << "n", "@", "x" >>
\* the student's address as typed: upper case, surrounding blanks
E_StudentRaw == << " ", "A", "@", "x", " " >>
N_StudentRaw == << "A", "n", "a", " " >>
PW_Good      == << "s", "e", "c", "r", "e", "t" >>
PW_Short     == << "s", "e", "c" >>
\* the addresses the provider can hold an account for
KnownEmails  == { E_Trainer, E_Inactive, E_Student, E_Signup }
\* the uid the provider gives to a new account (auth.js:88, 295)
NewUid(email) == IF email = E_Signup THEN U_Signup ELSE U_Student

\* String.prototype.toLowerCase (auth.js:123, 224, 283)
toLowerCase(s) ==
  [i \in 1..Len(s) |-> IF s[i] = "A" THEN "a" ELSE IF s[i] = "X" THEN "x" ELSE s[i]]

\* String.prototype.trim (auth.js:123, 134, 224, 283)
RECURSIVE trim(_)
trim(s) ==
  IF s = << >> THEN s
  ELSE IF Head(s) = " " THEN trim(Tail(s))
  ELSE IF s[Len(s)] = " " THEN trim(SubSeq(s, 1, Len(s) - 1))
  ELSE s

\* email.toLowerCase().trim()
NormalizeEmail(email) == trim(toLowerCase(email))

\* the characters matched by [a-z0-9] among those used here
LowerAlnum == { "a", "i", "n", "t", "x" }

\* normalizedEmail.replace(/[^a-z0-9]/g, '_') (auth.js:151, 225, 348)
EmailKey(email) ==
  [i \in 1..Len(email) |-> IF email[i] \in LowerAlnum THEN email[i] ELSE "_"]

IndexKeys == { EmailKey(e) : e \in KnownEmails }

\* a document of the collection users; exists = FALSE: no such document
NoDoc == [exists |-> FALSE, uid |-> NULL, name |-> << >>, email |-> << >>,
          userType |-> NULL, status |-> NULL, personalId |-> NULL,
          authUid |-> NULL, students |-> {}]

\* a document of pendingActivations (auth.js:152-156)
NoIndex == [exists |-> FALSE, studentDocId |-> NULL, status |-> NULL]

NoAccount == [exists |-> FALSE, uid |-> NULL, password |-> << >>]

\* Promise.resolve() (auth.js:26): a promise of no subscription
NoPromise == 0

\* no operation in progress for a caller
Idle == [op |-> "idle", pc |-> "none", email |-> << >>, password |-> << >>,
         name |-> << >>, docId |-> NULL, user |-> NULL, data |-> NoDoc,
         promise |-> NoPromise, begin |-> 0, alone |-> TRUE, full |-> TRUE]

\* the callers of AuthManager operations (page scripts)
FirstProc == "page1"
Procs == { FirstProc, "page2" }

\* result values of the operations
Success == [kind |-> "success", error |-> "", studentDocId |-> NULL,
            name |-> << >>, personalId |-> NULL]
\* a failure result that carries no message
FailureNoMessage(error) == [Success EXCEPT !.kind = "failure"]
Failure(error) == [Success EXCEPT !.kind = "failure", !.error = error]

\* the store and the provider left by earlier sessions: a trainer (signupPersonal,
\* auth.js:88-99) with one student who activated the account and was then
\* deactivated (auth.js:166)
StoreInit ==
  /\ accounts = [e \in KnownEmails |->
                   IF e = E_Trainer THEN [exists |-> TRUE, uid |-> U_Personal, password |-> PW_Good]
                   ELSE IF e = E_Inactive THEN [exists |-> TRUE, uid |-> U_Inactive, password |-> PW_Good]
                   ELSE NoAccount]
  /\ users = [d \in DocIds |->
                IF d = U_Personal
                  THEN [NoDoc EXCEPT !.exists = TRUE, !.uid = U_Personal,
                                     !.name = << "T" >>, !.email = E_Trainer,
                                     !.userType = "personal", !.status = "active",
                                     !.students = { U_Inactive }]
                ELSE IF d = U_Inactive
                  THEN [NoDoc EXCEPT !.exists = TRUE, !.uid = U_Inactive,
                                     !.name = << "I" >>, !.email = E_Inactive,
                                     !.userType = "student", !.status = "inactive",
                                     !.personalId = U_Personal, !.authUid = U_Inactive]
                ELSE NoDoc]
  /\ pendingActivations = [k \in IndexKeys |-> NoIndex]
  /\ docSeq = 0

\* AuthManager after its constructor (auth.js:13-20): no subscription, no
\* operation in progress
AuthInit ==
  /\ initializationPromise = FALSE
  /\ subs = << >>
  /\ notifications = << >>
  /\ callbacks = << >>
  /\ calls = [p \in Procs |-> Idle]
  /\ results = << >>
  /\ faults = 0
  /\ listeners = << >>
  /\ heard = << >>

\* ------------------------------------------------------------------ Router specification
\* The Router with the session written by SessionChange; no AuthManager operation
\* runs and nobody is signed in at the provider.
\* no function is called on its own
PureInit == matchPath = NoPath /\ matchResult = Pending

Init == SessionInit /\ RouterInit /\ StoreInit /\ AuthInit /\ authUser = NULL /\ PureInit

Next ==
  \/ \E path \in NavPaths : NavigateCall(path)
  \/ HashChangeEvent
  \/ \E path \in NavPaths, events \in { 1, 2 } : UserHashChange(path, events)
  \/ NavStart
  \/ NavWaitPoll
  \/ NavWaitTimeout
  \/ NavGuard
  \/ \E i \in 1..Len(loads), ok \in BOOLEAN : LoadFetch(i, ok)
  \/ \E i \in 1..Len(loads) : LoadMount(i)
  \/ \E i \in 1..Len(loads) : LoadFinish(i)
  \/ RouterStart
  \/ InitWaitPoll
  \/ InitWaitTimeout
  \/ \E user \in { NULL, U_Any }, type \in { NULL, "personal", "student" } :
        SessionChange(user, type)
  \/ AuthInitialized

Spec == Init /\ [][Next]_vars

\* ------------------------------------------------------------------ matchRoute on its own
\* the segments the paths are made of: names of the table, a value, a name that
\* is not in the table, and the empty segment
MatchSegments == { << "personal" >>, << "student" >>, << "volume" >>, << "42" >>,
                   << "extra" >>, << >> }

\* the paths of n segments, each behind a "/"
RECURSIVE PathsOf(_)
PathsOf(n) ==
  IF n = 0 THEN { << >> }
  ELSE { p \o << "/" >> \o seg : p \in PathsOf(n - 1), seg \in MatchSegments }

\* what loadPage hands to matchRoute (router.js:241): a path that begins with
\* "/" (router.js:173-175, 245); here the keys of the table and the paths of up
\* to MaxSegments segments
MatchInputs ==
  { routes[i].pattern : i \in 1..Len(routes) }
    \cup UNION { PathsOf(n) : n \in 1..MaxSegments }

InitMatch ==
  /\ SessionInit
  /\ RouterInit /\ hash = P_Empty
  /\ StoreInit /\ AuthInit /\ authUser = NULL
  /\ matchPath \in MatchInputs
  /\ matchResult = Pending

\* const matchResult = this.matchRoute(path) (router.js:241)
MatchRouteCall ==
  /\ matchResult = Pending
  /\ matchResult' = matchRoute(matchPath)
  /\ UNCHANGED << matchPath, sessionVars, routerVars, authVars, listenVars >>

NextMatch == MatchRouteCall

SpecMatch == InitMatch /\ [][NextMatch]_vars

\* ------------------------------------------------------------------ AuthManager: helpers
\* a call of the provider or the store succeeds, or fails (network, permission)
Fault(ok) == IF ok THEN faults' = faults ELSE faults < MaxFaults /\ faults' = faults + 1

\* the provider's identity becomes `user`: every subscription made with
\* auth.onAuthStateChanged is notified of a change (auth.js:31)
ProviderSet(user) ==
  /\ authUser' = user
  /\ notifications' =
       IF user = authUser THEN notifications
       ELSE notifications \o [i \in 1..Len(subs) |-> [sub |-> i, user |-> user]]

\* auth.signInWithEmailAndPassword accepts the credentials
SignInOk(email, password) ==
  /\ email \in KnownEmails
  /\ accounts[email].exists
  /\ accounts[email].password = password

Busy(p) == calls[p].op # "idle"

\* Page scripts call the operations; they run after authManager.initialize() has
\* been called (auth.js:427-431).  The second caller is only used while the
\* first is busy.
CanCall(p) ==
  /\ initializationPromise
  /\ ~Busy(p)
  /\ p = FirstProc \/ Busy(FirstProc)
  /\ Len(results) + Cardinality({ q \in Procs : Busy(q) }) < MaxCalls

\* the operation starts: it has the store and the provider to itself unless
\* another operation is in progress now or starts before it returns
Begin(p, c) ==
  calls' = [q \in Procs |->
              IF q = p
                THEN [c EXCEPT !.begin = Len(results),
                               !.alone = \A r \in Procs : r = p \/ ~Busy(r)]
              ELSE IF Busy(q) THEN [calls[q] EXCEPT !.alone = FALSE]
              ELSE calls[q]]

\* what is remembered of an operation that returned `res` from call state c
Outcome(c, res) ==
  [op |-> c.op, email |-> c.email, password |-> c.password, name |-> c.name,
   docId |-> c.docId, user |-> c.user, begin |-> c.begin, alone |-> c.alone, full |-> c.full,
   last |-> c.pc, res |-> res]

\* the operation of caller p returns res
Returns(p, c, res) ==
  /\ calls' = [calls EXCEPT ![p] = Idle]
  /\ results' = Append(results, Outcome(c, res))

\* the operation returns before its first await
ReturnsAtOnce(p, c, res) ==
  /\ calls' = [q \in Procs |->
                IF Busy(q) THEN [calls[q] EXCEPT !.alone = FALSE] ELSE calls[q]]
  /\ results' = Append(results,
                  Outcome([c EXCEPT !.begin = Len(results),
                                    !.alone = \A r \in Procs : r = p \/ ~Busy(r)], res))

\* the operation of caller p goes on to its next await in call state c
Goes(p, c) ==
  /\ calls' = [calls EXCEPT ![p] = c]
  /\ UNCHANGED results

At(p, op, pc) == calls[p].op = op /\ calls[p].pc = pc

\* ------------------------------------------------------------------ AuthManager.initialize
\* initialize() (auth.js:24-56): subscribes once; the provider then reports the
\* identity it holds
\* initialize() without the test of initializationPromise
DoInitializeAlways ==
  /\ initializationPromise' = TRUE
  /\ subs' = Append(subs, [resolved |-> FALSE, holders |-> 1])
  /\ notifications' = Append(notifications,
                             [sub |-> Len(subs) + 1, user |-> authUser])

\* the body of initialize() (auth.js:24-56)
DoInitialize ==
  IF initializationPromise
    THEN /\ subs' = [subs EXCEPT ![Len(subs)].holders = @ + 1]
         /\ UNCHANGED << initializationPromise, notifications >>
  ELSE IF isInitialized
    THEN UNCHANGED << subVars, notifications >>
  ELSE /\ initializationPromise' = TRUE
       /\ subs' = Append(subs, [resolved |-> FALSE, holders |-> 1])
       /\ notifications' = Append(notifications,
                                  [sub |-> Len(subs) + 1, user |-> authUser])

\* the promise initialize() returns: the one of a subscription, or an already
\* resolved one (auth.js:25-26, 55)
InitializeResult ==
  IF initializationPromise THEN Len(subs)
  ELSE IF isInitialized THEN NoPromise
  ELSE Len(subs) + 1

\* authManager.initialize() called from outside (auth.js:427-431)
Initialize ==
  /\ initializationPromise => subs[Len(subs)].holders < MaxInitCalls
  /\ DoInitialize
  /\ UNCHANGED << sessionVars, routerVars, pureVars, listenVars, providerVars, storeVars, callbacks,
                  calls, results, faults >>

\* a listener that has not been called yet
Unheard == [calls |-> 0, user |-> NULL, type |-> NULL]

\* the listeners forEach gets to when the first exception ends the iteration
ReachedUntilThrow(ls) == { i \in 1..Len(ls) : \A j \in 1..(i-1) : ~ls[j].throws }

\* the listeners forEach gets to: each call is inside try/catch, so all of them
\* (auth.js:66-68)
Reached(ls) == { i \in 1..Len(ls) : TRUE }

\* notifyListeners() with the session (user, type) (auth.js:65-69)
NotifyListeners(user, type) ==
  heard' = [i \in 1..Len(listeners) |->
              IF i \in Reached(listeners)
                THEN [calls |-> heard[i].calls + 1, user |-> user, type |-> type]
                ELSE heard[i]]

\* onAuthStateChanged(callback) (auth.js:71-74): the callback is registered and,
\* when initialization is complete, called at once; if it throws then, the
\* exception goes to the caller
Listen(throws) ==
  /\ Len(listeners) < MaxListeners
  /\ listeners' = Append(listeners, [throws |-> throws])
  /\ heard' = Append(heard,
                     IF isInitialized
                       THEN [calls |-> 1, user |-> currentUser, type |-> currentUserType]
                       ELSE Unheard)
  /\ UNCHANGED << sessionVars, routerVars, pureVars, authVars >>

\* if (!resolved) { resolved = true; this.isInitialized = true; resolve(); }
\* (auth.js:47-51)
Resolve(sub) ==
  /\ subs' = [subs EXCEPT ![sub].resolved = TRUE]
  /\ isInitialized' = (isInitialized \/ ~subs[sub].resolved)
  /\ UNCHANGED initializationPromise

\* the subscription callback starts (auth.js:31-43): with an identity it sets
\* currentUser and awaits the profile record; without one it clears the session.
\* The store reads the record at some moment between the call of get() and its
\* answer: `seen` keeps the record as it is when get() is called.
CallbackStart ==
  /\ notifications # << >>
  /\ notifications' = Tail(notifications)
  /\ LET n == Head(notifications)
     IN  IF n.user # NULL
           THEN /\ currentUser' = n.user
                /\ callbacks' = Append(callbacks, [sub |-> n.sub, user |-> n.user,
                                                   seen |-> users[n.user]])
                /\ UNCHANGED << currentUserType, isInitialized, subVars, heard >>
           ELSE /\ currentUser' = NULL
                /\ currentUserType' = NULL
                /\ NotifyListeners(NULL, NULL)
                /\ Resolve(n.sub)
                /\ UNCHANGED callbacks
  /\ UNCHANGED << routerVars, pureVars, listeners, providerVars, storeVars, calls, results,
                  faults >>

\* the end of the callback without the catch that clears the role
CallbackFetchedKeepsRole(i, ok) ==
  /\ Fault(ok)
  /\ LET cb == callbacks[i]
     IN  /\ \E doc \in { cb.seen, users[cb.user] } :
              currentUserType' = IF ~ok THEN currentUserType
                                 ELSE IF doc.exists THEN doc.userType ELSE NULL
         /\ NotifyListeners(currentUser, currentUserType')
         /\ Resolve(cb.sub)
  /\ callbacks' = RemoveAt(callbacks, i)
  /\ UNCHANGED << currentUser, routerVars, pureVars, listeners, providerVars, storeVars,
                  notifications, calls, results >>

\* the profile record arrives, or the get fails (auth.js:35-39, 45-51); the
\* record that arrives is the one of any moment since get() was called: a
\* profile record is written once, so the one of then or the one of now
CallbackFetched(i, ok) ==
  /\ Fault(ok)
  /\ LET cb == callbacks[i]
     IN  /\ \E doc \in { cb.seen, users[cb.user] } :
              currentUserType' = IF ok /\ doc.exists THEN doc.userType ELSE NULL
         /\ NotifyListeners(currentUser, currentUserType')
         /\ Resolve(cb.sub)
  /\ callbacks' = RemoveAt(callbacks, i)
  /\ UNCHANGED << currentUser, routerVars, pureVars, listeners, providerVars, storeVars,
                  notifications, calls, results >>

\* ------------------------------------------------------------------ AuthManager.login
\* login(email, password) up to the await of signInWithEmailAndPassword
\* (auth.js:365-367)
LoginCall(p, email, password) ==
  /\ CanCall(p)
  /\ Begin(p, [Idle EXCEPT !.op = "login", !.pc = "signIn", !.email = email,
                           !.password = password])
  /\ UNCHANGED << sessionVars, routerVars, pureVars, listenVars, providerVars, storeVars, subVars,
                  notifications, callbacks, results, faults >>

\* signInWithEmailAndPassword answers (auth.js:367-370, 384-386)
LoginSignIn(p, ok) ==
  /\ At(p, "login", "signIn")
  /\ Fault(ok)
  /\ LET c == calls[p]
     IN  IF ok /\ SignInOk(c.email, c.password)
           THEN /\ ProviderSet(accounts[c.email].uid)
                /\ Goes(p, [c EXCEPT !.pc = "getDoc", !.user = accounts[c.email].uid])
           ELSE /\ Returns(p, c, Failure(IF ok THEN "auth/invalid-credential"
                                               ELSE "unavailable"))
                /\ UNCHANGED << authUser, notifications >>
  /\ UNCHANGED << sessionVars, routerVars, pureVars, listenVars, accounts, storeVars, subVars, callbacks >>

\* the profile record of the signed-in identity arrives (auth.js:370-386)
LoginGetDoc(p, ok) ==
  /\ At(p, "login", "getDoc")
  /\ Fault(ok)
  /\ LET c   == calls[p]
         doc == users[c.user]
     IN  IF ~ok \/ ~doc.exists
           THEN /\ Returns(p, c, Failure(IF ok THEN "no user data" ELSE "unavailable"))
                /\ UNCHANGED << currentUser, currentUserType >>
         ELSE IF doc.userType = "student" /\ doc.status = "inactive"
           THEN /\ Goes(p, [c EXCEPT !.pc = "signOut"])
                /\ UNCHANGED << currentUser, currentUserType >>
         ELSE /\ currentUser' = c.user
              /\ currentUserType' = doc.userType
              /\ Returns(p, c, Success)
  /\ UNCHANGED << isInitialized, routerVars, pureVars, listenVars, providerVars, storeVars, subVars,
                  notifications, callbacks >>

\* auth.signOut() for the deactivated student answers (auth.js:376-377, 384-386)
LoginSignOut(p, ok) ==
  /\ At(p, "login", "signOut")
  /\ Fault(ok)
  /\ IF ok THEN ProviderSet(NULL) ELSE UNCHANGED << authUser, notifications >>
  /\ Returns(p, calls[p], Failure(IF ok THEN "account deactivated" ELSE "unavailable"))
  /\ UNCHANGED << sessionVars, routerVars, pureVars, listenVars, accounts, storeVars, subVars, callbacks >>

\* ------------------------------------------------------------------ AuthManager.createStudentAccount
\* createStudentAccount(name, email) without the test of the role
CreateCallNoRoleCheck(p, name, email) ==
  /\ CanCall(p)
  /\ LET c == [Idle EXCEPT !.op = "create", !.pc = "query", !.name = name,
                           !.email = email, !.user = currentUser]
     IN  IF currentUser = NULL
           THEN ReturnsAtOnce(p, c, Failure("not authenticated"))
         ELSE IF name = << >> \/ email = << >>
           THEN ReturnsAtOnce(p, c, Failure("name and e-mail are required"))
         ELSE Begin(p, c) /\ UNCHANGED results
  /\ UNCHANGED << sessionVars, routerVars, pureVars, listenVars, providerVars, storeVars, subVars,
                  notifications, callbacks, faults >>

\* createStudentAccount(name, email) up to the query for the e-mail
\* (auth.js:116-127)
CreateCall(p, name, email) ==
  /\ CanCall(p)
  /\ LET c == [Idle EXCEPT !.op = "create", !.pc = "query", !.name = name,
                           !.email = email, !.user = currentUser]
     IN  IF currentUser = NULL
           THEN ReturnsAtOnce(p, c, Failure("not authenticated"))
         ELSE IF currentUserType # "personal"
           THEN ReturnsAtOnce(p, c, Failure("only trainers create students"))
         ELSE IF name = << >> \/ email = << >>
           THEN ReturnsAtOnce(p, c, Failure("name and e-mail are required"))
         ELSE Begin(p, c) /\ UNCHANGED results
  /\ UNCHANGED << sessionVars, routerVars, pureVars, listenVars, providerVars, storeVars, subVars,
                  notifications, callbacks, faults >>

\* the query answers; db.collection('users').doc() makes the new id
\* (auth.js:125-130)
CreateQuery(p, ok) ==
  /\ At(p, "create", "query")
  /\ Fault(ok)
  /\ LET c == calls[p]
     IN  IF ~ok
           THEN Returns(p, c, Failure("unavailable")) /\ UNCHANGED docSeq
         ELSE IF \E d \in DocIds : users[d].exists /\ users[d].email = NormalizeEmail(c.email)
           THEN Returns(p, c, Failure("e-mail already registered")) /\ UNCHANGED docSeq
         ELSE /\ docSeq < Len(ProvIds)
              /\ docSeq' = docSeq + 1
              /\ Goes(p, [c EXCEPT !.pc = "setDoc", !.docId = ProvIds[docSeq + 1]])
  /\ UNCHANGED << sessionVars, routerVars, pureVars, listenVars, providerVars, users, pendingActivations,
                  subVars, notifications, callbacks >>

\* studentRef.set answers (auth.js:132-143)
CreateSetDoc(p, ok) ==
  /\ At(p, "create", "setDoc")
  /\ Fault(ok)
  /\ LET c == calls[p]
     IN  IF ok
           THEN /\ users' = [users EXCEPT ![c.docId] =
                               [NoDoc EXCEPT !.exists = TRUE, !.uid = c.docId,
                                             !.name = trim(c.name),
                                             !.email = NormalizeEmail(c.email),
                                             !.userType = "student",
                                             !.status = "pending",
                                             !.personalId = c.user]]
                /\ Goes(p, [c EXCEPT !.pc = "updateList"])
           ELSE Returns(p, c, Failure("unavailable")) /\ UNCHANGED users
  /\ UNCHANGED << sessionVars, routerVars, pureVars, listenVars, providerVars, pendingActivations, docSeq,
                  subVars, notifications, callbacks >>

\* the arrayUnion on the trainer's record answers (auth.js:145-147)
CreateUpdateList(p, ok) ==
  /\ At(p, "create", "updateList")
  /\ Fault(ok)
  /\ LET c == calls[p]
     IN  IF ok /\ users[c.user].exists
           THEN /\ users' = [users EXCEPT ![c.user].students = @ \cup { c.docId }]
                /\ Goes(p, [c EXCEPT !.pc = "setIndex"])
           ELSE Returns(p, c, Failure("unavailable")) /\ UNCHANGED users
  /\ UNCHANGED << sessionVars, routerVars, pureVars, listenVars, providerVars, pendingActivations, docSeq,
                  subVars, notifications, callbacks >>

\* the write of the index entry answers (auth.js:151-161)
CreateSetIndex(p, ok) ==
  /\ At(p, "create", "setIndex")
  /\ Fault(ok)
  /\ LET c == calls[p]
     IN  IF ok
           THEN /\ pendingActivations' =
                     [pendingActivations EXCEPT ![EmailKey(NormalizeEmail(c.email))] =
                        [exists |-> TRUE, studentDocId |-> c.docId, status |-> "pending"]]
                /\ Returns(p, c, [Success EXCEPT !.studentDocId = c.docId])
           ELSE Returns(p, c, Failure("unavailable")) /\ UNCHANGED pendingActivations
  /\ UNCHANGED << sessionVars, routerVars, pureVars, listenVars, providerVars, users, docSeq, subVars,
                  notifications, callbacks >>

\* ------------------------------------------------------------------ AuthManager.checkPendingStudent
\* checkPendingStudent(email) up to the get of the index entry (auth.js:222-228)
CheckCall(p, email) ==
  /\ CanCall(p)
  /\ Begin(p, [Idle EXCEPT !.op = "check", !.pc = "getIndex", !.email = email])
  /\ UNCHANGED << sessionVars, routerVars, pureVars, listenVars, providerVars, storeVars, subVars,
                  notifications, callbacks, results, faults >>

\* the index entry arrives (auth.js:228-248, 262-264)
CheckGetIndex(p, ok) ==
  /\ At(p, "check", "getIndex")
  /\ Fault(ok)
  /\ LET c        == calls[p]
         indexDoc == pendingActivations[EmailKey(NormalizeEmail(c.email))]
     IN  IF ~ok THEN Returns(p, c, [Failure("unavailable") EXCEPT !.kind = "error"])
         ELSE IF ~indexDoc.exists THEN Returns(p, c, [Success EXCEPT !.kind = "noIndex"])
         ELSE IF indexDoc.status # "pending"
           THEN Returns(p, c, [Success EXCEPT !.kind = "alreadyActive"])
         ELSE Goes(p, [c EXCEPT !.pc = "getStudent", !.docId = indexDoc.studentDocId])
  /\ UNCHANGED << sessionVars, routerVars, pureVars, listenVars, providerVars, storeVars, subVars,
                  notifications, callbacks >>

\* the student's record arrives (auth.js:248-264)
CheckGetStudent(p, ok) ==
  /\ At(p, "check", "getStudent")
  /\ Fault(ok)
  /\ LET c          == calls[p]
         studentDoc == users[c.docId]
     IN  IF ~ok THEN Returns(p, c, [Failure("unavailable") EXCEPT !.kind = "error"])
         ELSE IF ~studentDoc.exists \/ studentDoc.status # "pending"
           THEN Returns(p, c, [Success EXCEPT !.kind = "alreadyActive"])
         ELSE Returns(p, c, [Success EXCEPT !.kind = "exists",
                                            !.studentDocId = c.docId,
                                            !.name = studentDoc.name,
                                            !.personalId = studentDoc.personalId])
  /\ UNCHANGED << sessionVars, routerVars, pureVars, listenVars, providerVars, storeVars, subVars,
                  notifications, callbacks >>

\* ------------------------------------------------------------------ AuthManager.activateStudentAccount
\* activateStudentAccount(email, password, studentDocId) up to the get of the
\* provisional record (auth.js:279-286)
ActivateCall(p, email, password, studentDocId) ==
  /\ CanCall(p)
  /\ LET c == [Idle EXCEPT !.op = "activate", !.pc = "s1", !.email = email,
                           !.password = password, !.docId = studentDocId]
     IN  IF Len(password) < Len(PW_Good)
           THEN ReturnsAtOnce(p, c, Failure("password too short"))
           ELSE Begin(p, c) /\ UNCHANGED results
  /\ UNCHANGED << sessionVars, routerVars, pureVars, listenVars, providerVars, storeVars, subVars,
                  notifications, callbacks, faults >>

\* step 1 without the test that the provisional record exists
ActivateGetProvisoryNoCheck(p, ok) ==
  /\ At(p, "activate", "s1")
  /\ Fault(ok)
  /\ LET c == calls[p]
     IN  IF ~ok THEN Returns(p, c, Failure("unavailable"))
         ELSE Goes(p, [c EXCEPT !.pc = "s2", !.data = users[c.docId]])
  /\ UNCHANGED << sessionVars, routerVars, pureVars, listenVars, providerVars, storeVars, subVars,
                  notifications, callbacks >>

\* step 1: the provisional record arrives (auth.js:286-290)
ActivateGetProvisory(p, ok) ==
  /\ At(p, "activate", "s1")
  /\ Fault(ok)
  /\ LET c == calls[p]
     IN  IF ~ok THEN Returns(p, c, Failure("unavailable"))
         ELSE IF ~users[c.docId].exists THEN Returns(p, c, Failure("student data not found"))
         ELSE Goes(p, [c EXCEPT !.pc = "s2", !.data = users[c.docId]])
  /\ UNCHANGED << sessionVars, routerVars, pureVars, listenVars, providerVars, storeVars, subVars,
                  notifications, callbacks >>

\* step 2 without the sign-in when the address is in use
ActivateCreateUserNoSignIn(p, ok) ==
  /\ At(p, "activate", "s2")
  /\ Fault(ok)
  /\ LET c     == calls[p]
         email == NormalizeEmail(c.email)
     IN  IF ~ok \/ email \notin KnownEmails
           THEN /\ Returns(p, c, Failure(IF ok THEN "auth/invalid-email" ELSE "unavailable"))
                /\ UNCHANGED << providerVars, notifications >>
         ELSE IF accounts[email].exists
           THEN /\ Returns(p, c, Failure("auth/email-already-in-use"))
                /\ UNCHANGED << providerVars, notifications >>
         ELSE /\ accounts' = [accounts EXCEPT ![email] =
                                [exists |-> TRUE, uid |-> NewUid(email),
                                 password |-> c.password]]
              /\ ProviderSet(NewUid(email))
              /\ Goes(p, [c EXCEPT !.pc = "s3", !.user = NewUid(email)])
  /\ UNCHANGED << sessionVars, routerVars, pureVars, listenVars, storeVars, subVars, callbacks >>

\* step 2: createUserWithEmailAndPassword answers (auth.js:294-305)
ActivateCreateUser(p, ok) ==
  /\ At(p, "activate", "s2")
  /\ Fault(ok)
  /\ LET c     == calls[p]
         email == NormalizeEmail(c.email)
     IN  IF ~ok \/ email \notin KnownEmails
           THEN /\ Returns(p, c, Failure(IF ok THEN "auth/invalid-email" ELSE "unavailable"))
                /\ UNCHANGED << providerVars, notifications >>
         ELSE IF accounts[email].exists
           THEN /\ Goes(p, [c EXCEPT !.pc = "s2signIn"])
                /\ UNCHANGED << providerVars, notifications >>
         ELSE /\ accounts' = [accounts EXCEPT ![email] =
                                [exists |-> TRUE, uid |-> NewUid(email),
                                 password |-> c.password]]
              /\ ProviderSet(NewUid(email))
              /\ Goes(p, [c EXCEPT !.pc = "s3", !.user = NewUid(email)])
  /\ UNCHANGED << sessionVars, routerVars, pureVars, listenVars, storeVars, subVars, callbacks >>

\* step 2, the address is in use: signInWithEmailAndPassword answers
\* (auth.js:298-301)
ActivateSignIn(p, ok) ==
  /\ At(p, "activate", "s2signIn")
  /\ Fault(ok)
  /\ LET c     == calls[p]
         email == NormalizeEmail(c.email)
     IN  IF ok /\ SignInOk(email, c.password)
           THEN /\ ProviderSet(accounts[email].uid)
                /\ Goes(p, [c EXCEPT !.pc = "s3", !.user = accounts[email].uid])
           ELSE /\ Returns(p, c, Failure(IF ok THEN "auth/invalid-credential"
                                               ELSE "unavailable"))
                /\ UNCHANGED << authUser, notifications >>
  /\ UNCHANGED << sessionVars, routerVars, pureVars, listenVars, accounts, storeVars, subVars, callbacks >>

\* step 3: the record users/{uid} arrives (auth.js:308-313)
ActivateGetExisting(p, ok) ==
  /\ At(p, "activate", "s3")
  /\ Fault(ok)
  /\ LET c           == calls[p]
         existingDoc == users[c.user]
     IN  IF ~ok
           THEN Returns(p, c, Failure("unavailable"))
                  /\ UNCHANGED << currentUser, currentUserType >>
         ELSE IF existingDoc.exists /\ existingDoc.status = "active"
           THEN /\ currentUser' = c.user
                /\ currentUserType' = "student"
                /\ Returns(p, c, Success)
         ELSE Goes(p, [c EXCEPT !.pc = "s4"]) /\ UNCHANGED << currentUser, currentUserType >>
  /\ UNCHANGED << isInitialized, routerVars, pureVars, listenVars, providerVars, storeVars, subVars,
                  notifications, callbacks >>

\* step 4: the write of the final record answers (auth.js:316-322)
ActivateSetFinal(p, ok) ==
  /\ At(p, "activate", "s4")
  /\ Fault(ok)
  /\ LET c == calls[p]
     IN  IF ok
           THEN /\ users' = [users EXCEPT ![c.user] =
                               [c.data EXCEPT !.uid = c.user, !.authUid = c.user,
                                              !.status = "active"]]
                /\ Goes(p, [c EXCEPT !.pc = "s5"])
           ELSE Returns(p, c, Failure("unavailable")) /\ UNCHANGED users
  /\ UNCHANGED << sessionVars, routerVars, pureVars, listenVars, providerVars, pendingActivations, docSeq,
                  subVars, notifications, callbacks >>

\* step 5 without the catch around the delete: a failure ends the operation
ActivateDeleteProvisoryThrows(p, ok) ==
  /\ At(p, "activate", "s5")
  /\ Fault(ok)
  /\ LET c    == calls[p]
         next == IF c.data.personalId # NULL THEN "s6remove" ELSE "s7"
     IN  IF ok
           THEN /\ users' = [users EXCEPT ![c.docId] = NoDoc]
                /\ Goes(p, [c EXCEPT !.pc = next])
           ELSE /\ Returns(p, c, Failure("unavailable"))
                /\ UNCHANGED users
  /\ UNCHANGED << sessionVars, routerVars, pureVars, listenVars, providerVars, pendingActivations, docSeq,
                  subVars, notifications, callbacks >>

\* step 5: the delete of the provisional record answers; a failure is only
\* logged (auth.js:325-333)
ActivateDeleteProvisory(p, ok) ==
  /\ At(p, "activate", "s5")
  /\ Fault(ok)
  /\ LET c    == calls[p]
         next == IF c.data.personalId # NULL THEN "s6remove" ELSE "s7"
     IN  IF ok
           THEN /\ users' = [users EXCEPT ![c.docId] = NoDoc]
                /\ Goes(p, [c EXCEPT !.pc = next])
           ELSE /\ Goes(p, [c EXCEPT !.pc = next, !.full = FALSE])
                /\ UNCHANGED users
  /\ UNCHANGED << sessionVars, routerVars, pureVars, listenVars, providerVars, pendingActivations, docSeq,
                  subVars, notifications, callbacks >>

\* step 6, arrayRemove of the provisional id answers; a failure is only logged
\* and skips the arrayUnion (auth.js:334-343)
ActivateListRemove(p, ok) ==
  /\ At(p, "activate", "s6remove")
  /\ Fault(ok)
  /\ LET c          == calls[p]
         personalId == c.data.personalId
     IN  IF ok /\ users[personalId].exists
           THEN /\ users' = [users EXCEPT ![personalId].students = @ \ { c.docId }]
                /\ Goes(p, [c EXCEPT !.pc = "s6union"])
           ELSE /\ Goes(p, [c EXCEPT !.pc = "s7", !.full = FALSE])
                /\ UNCHANGED users
  /\ UNCHANGED << sessionVars, routerVars, pureVars, listenVars, providerVars, pendingActivations, docSeq,
                  subVars, notifications, callbacks >>

\* step 6 with the provisional id put back into the list
ActivateListUnionProvisional(p, ok) ==
  /\ At(p, "activate", "s6union")
  /\ Fault(ok)
  /\ LET c          == calls[p]
         personalId == c.data.personalId
     IN  IF ok /\ users[personalId].exists
           THEN /\ users' = [users EXCEPT ![personalId].students = @ \cup { c.docId }]
                /\ Goes(p, [c EXCEPT !.pc = "s7"])
           ELSE /\ Goes(p, [c EXCEPT !.pc = "s7", !.full = FALSE])
                /\ UNCHANGED users
  /\ UNCHANGED << sessionVars, routerVars, pureVars, listenVars, providerVars, pendingActivations, docSeq,
                  subVars, notifications, callbacks >>

\* step 6, arrayUnion of the identity's id answers (auth.js:338-343)
ActivateListUnion(p, ok) ==
  /\ At(p, "activate", "s6union")
  /\ Fault(ok)
  /\ LET c          == calls[p]
         personalId == c.data.personalId
     IN  IF ok /\ users[personalId].exists
           THEN /\ users' = [users EXCEPT ![personalId].students = @ \cup { c.user }]
                /\ Goes(p, [c EXCEPT !.pc = "s7"])
           ELSE /\ Goes(p, [c EXCEPT !.pc = "s7", !.full = FALSE])
                /\ UNCHANGED users
  /\ UNCHANGED << sessionVars, routerVars, pureVars, listenVars, providerVars, pendingActivations, docSeq,
                  subVars, notifications, callbacks >>

\* step 7: the delete of the index entry answers, a failure is only logged; the
\* session is set and the operation returns success (auth.js:347-357)
ActivateDeleteIndex(p, ok) ==
  /\ At(p, "activate", "s7")
  /\ Fault(ok)
  /\ LET c        == calls[p]
         emailKey == EmailKey(NormalizeEmail(c.email))
     IN  /\ IF ok /\ emailKey \in IndexKeys
              THEN pendingActivations' = [pendingActivations EXCEPT ![emailKey] = NoIndex]
              ELSE UNCHANGED pendingActivations
         /\ currentUser' = c.user
         /\ currentUserType' = "student"
         /\ Returns(p, [c EXCEPT !.full = c.full /\ ok], Success)
  /\ UNCHANGED << isInitialized, routerVars, pureVars, listenVars, providerVars, users, docSeq, subVars,
                  notifications, callbacks >>

\* ------------------------------------------------------------------ AuthManager.deleteStudent
\* deleteStudent(studentDocId) up to the get of the student's record
\* (auth.js:182-189)
DeleteCall(p, studentDocId) ==
  /\ CanCall(p)
  /\ LET c == [Idle EXCEPT !.op = "delete", !.pc = "getStudent", !.docId = studentDocId,
                           !.user = currentUser]
     IN  IF currentUser = NULL
           THEN ReturnsAtOnce(p, c, Failure("not authenticated"))
           ELSE Begin(p, c) /\ UNCHANGED results
  /\ UNCHANGED << sessionVars, routerVars, pureVars, listenVars, providerVars, storeVars, subVars,
                  notifications, callbacks, faults >>

\* the student's record arrives; without it, or when the get fails, the index
\* is left alone (auth.js:189-194)
DeleteGetStudent(p, ok) ==
  /\ At(p, "delete", "getStudent")
  /\ Fault(ok)
  /\ LET c == calls[p]
     IN  IF ok /\ users[c.docId].exists
           THEN Goes(p, [c EXCEPT !.pc = "deleteIndex", !.data = users[c.docId]])
           ELSE Goes(p, [c EXCEPT !.pc = "listRemove"])
  /\ UNCHANGED << sessionVars, routerVars, pureVars, listenVars, providerVars, storeVars, subVars,
                  notifications, callbacks >>

\* the delete of the index entry answers; a failure is ignored (auth.js:191-194)
DeleteIndex(p, ok) ==
  /\ At(p, "delete", "deleteIndex")
  /\ Fault(ok)
  /\ LET c        == calls[p]
         emailKey == EmailKey(c.data.email)
     IN  /\ IF ok /\ emailKey \in IndexKeys
              THEN pendingActivations' = [pendingActivations EXCEPT ![emailKey] = NoIndex]
              ELSE UNCHANGED pendingActivations
         /\ Goes(p, [c EXCEPT !.pc = "listRemove"])
  /\ UNCHANGED << sessionVars, routerVars, pureVars, listenVars, providerVars, users, docSeq, subVars,
                  notifications, callbacks >>

\* the arrayRemove on the trainer's record answers (auth.js:196-198)
DeleteListRemove(p, ok) ==
  /\ At(p, "delete", "listRemove")
  /\ Fault(ok)
  /\ LET c == calls[p]
     IN  IF ok /\ users[c.user].exists
           THEN /\ users' = [users EXCEPT ![c.user].students = @ \ { c.docId }]
                /\ Goes(p, [c EXCEPT !.pc = "deleteDoc"])
           ELSE Returns(p, c, Failure("unavailable")) /\ UNCHANGED users
  /\ UNCHANGED << sessionVars, routerVars, pureVars, listenVars, providerVars, pendingActivations, docSeq,
                  subVars, notifications, callbacks >>

\* the delete of the student's record answers (auth.js:200-205)
DeleteDoc(p, ok) ==
  /\ At(p, "delete", "deleteDoc")
  /\ Fault(ok)
  /\ LET c == calls[p]
     IN  IF ok
           THEN /\ users' = [users EXCEPT ![c.docId] = NoDoc]
                /\ Returns(p, c, Success)
           ELSE Returns(p, c, Failure("unavailable")) /\ UNCHANGED users
  /\ UNCHANGED << sessionVars, routerVars, pureVars, listenVars, providerVars, pendingActivations, docSeq,
                  subVars, notifications, callbacks >>

\* ------------------------------------------------------------------ AuthManager specification
\* the arguments the operations are called with
LoginInputs == { << E_Trainer, PW_Good >>, << E_Inactive, PW_Good >>,
                 << E_Trainer, PW_Short >> }
HandedOut   == { ProvIds[i] : i \in 1..docSeq }

\* The AuthManager with the provider and the store; the Router stands still.
\* authManager.initialize() is called once, when the script is loaded
\* (auth.js:427-431).
\* The provider may hold the trainer's identity from an earlier visit.
InitAuth ==
  /\ SessionInit
  /\ RouterInit /\ hash = P_Empty
  /\ StoreInit /\ AuthInit /\ PureInit
  /\ authUser \in { NULL, U_Personal }

NextAuth ==
  \/ ~initializationPromise /\ Initialize
  \/ CallbackStart
  \/ \E i \in 1..Len(callbacks), ok \in BOOLEAN : CallbackFetched(i, ok)
  \/ \E p \in Procs, cred \in LoginInputs : LoginCall(p, cred[1], cred[2])
  \/ \E p \in Procs, ok \in BOOLEAN : LoginSignIn(p, ok)
  \/ \E p \in Procs, ok \in BOOLEAN : LoginGetDoc(p, ok)
  \/ \E p \in Procs, ok \in BOOLEAN : LoginSignOut(p, ok)
  \/ \E p \in Procs : CreateCall(p, N_StudentRaw, E_StudentRaw)
  \/ \E p \in Procs, ok \in BOOLEAN : CreateQuery(p, ok)
  \/ \E p \in Procs, ok \in BOOLEAN : CreateSetDoc(p, ok)
  \/ \E p \in Procs, ok \in BOOLEAN : CreateUpdateList(p, ok)
  \/ \E p \in Procs, ok \in BOOLEAN : CreateSetIndex(p, ok)
  \/ \E p \in Procs : CheckCall(p, E_StudentRaw)
  \/ \E p \in Procs, ok \in BOOLEAN : CheckGetIndex(p, ok)
  \/ \E p \in Procs, ok \in BOOLEAN : CheckGetStudent(p, ok)
  \/ \E p \in Procs, password \in { PW_Good, PW_Short }, d \in HandedOut :
        ActivateCall(p, E_StudentRaw, password, d)
  \/ \E p \in Procs, ok \in BOOLEAN : ActivateGetProvisory(p, ok)
  \/ \E p \in Procs, ok \in BOOLEAN : ActivateCreateUser(p, ok)
  \/ \E p \in Procs, ok \in BOOLEAN : ActivateSignIn(p, ok)
  \/ \E p \in Procs, ok \in BOOLEAN : ActivateGetExisting(p, ok)
  \/ \E p \in Procs, ok \in BOOLEAN : ActivateSetFinal(p, ok)
  \/ \E p \in Procs, ok \in BOOLEAN : ActivateDeleteProvisory(p, ok)
  \/ \E p \in Procs, ok \in BOOLEAN : ActivateListRemove(p, ok)
  \/ \E p \in Procs, ok \in BOOLEAN : ActivateListUnion(p, ok)
  \/ \E p \in Procs, ok \in BOOLEAN : ActivateDeleteIndex(p, ok)

SpecAuth == InitAuth /\ [][NextAuth]_vars

\* ------------------------------------------------------------------ AuthManager.logout
\* logout() up to the await of auth.signOut() (auth.js:389-393)
LogoutCall(p) ==
  /\ CanCall(p)
  /\ currentUser' = NULL
  /\ currentUserType' = NULL
  /\ Begin(p, [Idle EXCEPT !.op = "logout", !.pc = "signOut"])
  /\ UNCHANGED << isInitialized, routerVars, pureVars, listenVars, providerVars, storeVars, subVars,
                  notifications, callbacks, results, faults >>

\* auth.signOut() answers: the 200 ms wait begins, or the error is swallowed and
\* logout returns success (auth.js:393-397)
LogoutSignOut(p, ok) ==
  /\ At(p, "logout", "signOut")
  /\ Fault(ok)
  /\ LET c == calls[p]
     IN  IF ok
           THEN ProviderSet(NULL) /\ Goes(p, [c EXCEPT !.pc = "settle"])
           ELSE /\ Returns(p, [c EXCEPT !.full = FALSE], Success)
                /\ UNCHANGED << authUser, notifications >>
  /\ UNCHANGED << sessionVars, routerVars, pureVars, listenVars, accounts, storeVars, subVars,
                  callbacks >>

\* the 200 ms are over: reinitialize() up to its 100 ms wait (auth.js:394-395,
\* 58-61)
LogoutSettled(p) ==
  /\ At(p, "logout", "settle")
  /\ isInitialized' = FALSE
  /\ initializationPromise' = FALSE
  /\ Goes(p, [calls[p] EXCEPT !.pc = "reinitialize"])
  /\ UNCHANGED << currentUser, currentUserType, routerVars, pureVars, listenVars, providerVars,
                  storeVars, subs, notifications, callbacks, faults >>

\* the 100 ms are over: reinitialize() calls initialize() and awaits its promise
\* (auth.js:61-62)
LogoutInitialize(p) ==
  /\ At(p, "logout", "reinitialize")
  /\ DoInitialize
  /\ Goes(p, [calls[p] EXCEPT !.pc = "awaitInit", !.promise = InitializeResult])
  /\ UNCHANGED << sessionVars, routerVars, pureVars, listenVars, providerVars, storeVars, callbacks,
                  faults >>

\* the promise of initialize() is resolved: logout returns (auth.js:395-397)
LogoutReturns(p) ==
  /\ At(p, "logout", "awaitInit")
  /\ IF calls[p].promise = NoPromise THEN TRUE ELSE subs[calls[p].promise].resolved
  /\ Returns(p, calls[p], Success)
  /\ UNCHANGED << sessionVars, routerVars, pureVars, listenVars, providerVars, storeVars, subVars,
                  notifications, callbacks, faults >>

\* ------------------------------------------------------------------ AuthManager.signupPersonal
\* signupPersonal(email, password, name) up to the await of
\* createUserWithEmailAndPassword (auth.js:83-88)
SignupCall(p, email, password, name) ==
  /\ CanCall(p)
  /\ LET c == [Idle EXCEPT !.op = "signup", !.pc = "createUser", !.email = email,
                           !.password = password, !.name = name]
     IN  IF email = << >> \/ password = << >> \/ name = << >>
           THEN ReturnsAtOnce(p, c, Failure("all fields are required"))
         ELSE IF Len(password) < Len(PW_Good)
           THEN ReturnsAtOnce(p, c, Failure("password too short"))
         ELSE Begin(p, c) /\ UNCHANGED results
  /\ UNCHANGED << sessionVars, routerVars, pureVars, listenVars, providerVars, storeVars, subVars,
                  notifications, callbacks, faults >>

\* createUserWithEmailAndPassword answers (auth.js:88-89, 105-107)
SignupCreateUser(p, ok) ==
  /\ At(p, "signup", "createUser")
  /\ Fault(ok)
  /\ LET c == calls[p]
     IN  IF ~ok \/ c.email \notin KnownEmails \/ accounts[c.email].exists
           THEN /\ Returns(p, c, Failure(IF ~ok THEN "unavailable"
                                         ELSE IF c.email \notin KnownEmails
                                           THEN "auth/invalid-email"
                                         ELSE "auth/email-already-in-use"))
                /\ UNCHANGED << providerVars, notifications >>
           ELSE /\ accounts' = [accounts EXCEPT ![c.email] =
                                  [exists |-> TRUE, uid |-> NewUid(c.email),
                                   password |-> c.password]]
                /\ ProviderSet(NewUid(c.email))
                /\ Goes(p, [c EXCEPT !.pc = "setDoc", !.user = NewUid(c.email)])
  /\ UNCHANGED << sessionVars, routerVars, pureVars, listenVars, storeVars, subVars, callbacks >>

\* the write of the trainer's profile record answers (auth.js:91-107)
SignupSetDoc(p, ok) ==
  /\ At(p, "signup", "setDoc")
  /\ Fault(ok)
  /\ LET c == calls[p]
     IN  IF ok
           THEN /\ users' = [users EXCEPT ![c.user] =
                               [NoDoc EXCEPT !.exists = TRUE, !.uid = c.user,
                                             !.name = c.name, !.email = c.email,
                                             !.userType = "personal",
                                             !.status = "active"]]
                /\ currentUser' = c.user
                /\ currentUserType' = "personal"
                /\ Returns(p, c, Success)
           ELSE /\ Returns(p, c, Failure("unavailable"))
                /\ UNCHANGED << users, currentUser, currentUserType >>
  /\ UNCHANGED << isInitialized, routerVars, pureVars, listenVars, providerVars, pendingActivations,
                  docSeq, subVars, notifications, callbacks >>

\* ------------------------------------------------------------------ session specification
\* the arguments signupPersonal is called with: a new address, one that has
\* an account, a password that is too short
N_Signup     == << "N" >>
SignupInputs == { << E_Signup, PW_Good >>, << E_Trainer, PW_Good >>,
                  << E_Signup, PW_Short >> }

\* fewer than n operations have been called
Within(n) == Len(results) + Cardinality({ q \in Procs : Busy(q) }) < n

\* The operations on the session: initialize(), which may be called more than
\* once, login, logout and signupPersonal, with the provider's notifications.
NextSession ==
  \/ Initialize
  \/ CallbackStart
  \/ \E i \in 1..Len(callbacks), ok \in BOOLEAN : CallbackFetched(i, ok)
  \/ \E p \in Procs, cred \in LoginInputs :
        Within(MaxSessionCalls) /\ LoginCall(p, cred[1], cred[2])
  \/ \E p \in Procs, ok \in BOOLEAN : LoginSignIn(p, ok)
  \/ \E p \in Procs, ok \in BOOLEAN : LoginGetDoc(p, ok)
  \/ \E p \in Procs, ok \in BOOLEAN : LoginSignOut(p, ok)
  \/ \E p \in Procs : Within(MaxSessionCalls) /\ LogoutCall(p)
  \/ \E p \in Procs, ok \in BOOLEAN : LogoutSignOut(p, ok)
  \/ \E p \in Procs : LogoutSettled(p)
  \/ \E p \in Procs : LogoutInitialize(p)
  \/ \E p \in Procs : LogoutReturns(p)
  \/ \E p \in Procs, cred \in SignupInputs :
        Within(MaxSessionCalls) /\ SignupCall(p, cred[1], cred[2], N_Signup)
  \/ \E p \in Procs, ok \in BOOLEAN : SignupCreateUser(p, ok)
  \/ \E p \in Procs, ok \in BOOLEAN : SignupSetDoc(p, ok)

SpecSession == InitAuth /\ [][NextSession]_vars

\* ------------------------------------------------------------------ listeners specification
\* Page scripts register listeners, some of which throw, before or after the
\* initialization; login changes the identity.
NextListen ==
  \/ ~initializationPromise /\ Initialize
  \/ \E throws \in BOOLEAN : Listen(throws)
  \/ CallbackStart
  \/ \E i \in 1..Len(callbacks), ok \in BOOLEAN : CallbackFetched(i, ok)
  \/ \E p \in Procs, cred \in LoginInputs :
        Within(MaxListenCalls) /\ LoginCall(p, cred[1], cred[2])
  \/ \E p \in Procs, ok \in BOOLEAN : LoginSignIn(p, ok)
  \/ \E p \in Procs, ok \in BOOLEAN : LoginGetDoc(p, ok)
  \/ \E p \in Procs, ok \in BOOLEAN : LoginSignOut(p, ok)

SpecListen == InitAuth /\ [][NextListen]_vars

\* ------------------------------------------------------------------ operations specification
\* the store after createStudentAccount for the student's address (auth.js:130-156)
\* in an earlier session, and the provider after that or after an activation
\* that stopped once the identity was made (auth.js:295)
StorePending(withAccount) ==
  /\ accounts = [e \in KnownEmails |->
                   IF e = E_Trainer THEN [exists |-> TRUE, uid |-> U_Personal, password |-> PW_Good]
                   ELSE IF e = E_Inactive THEN [exists |-> TRUE, uid |-> U_Inactive, password |-> PW_Good]
                   ELSE IF e = E_Student /\ withAccount
                     THEN [exists |-> TRUE, uid |-> U_Student, password |-> PW_Good]
                   ELSE NoAccount]
  /\ users = [d \in DocIds |->
                IF d = U_Personal
                  THEN [NoDoc EXCEPT !.exists = TRUE, !.uid = U_Personal,
                                     !.name = << "T" >>, !.email = E_Trainer,
                                     !.userType = "personal", !.status = "active",
                                     !.students = { U_Inactive, ProvIds[1] }]
                ELSE IF d = U_Inactive
                  THEN [NoDoc EXCEPT !.exists = TRUE, !.uid = U_Inactive,
                                     !.name = << "I" >>, !.email = E_Inactive,
                                     !.userType = "student", !.status = "inactive",
                                     !.personalId = U_Personal, !.authUid = U_Inactive]
                ELSE IF d = ProvIds[1]
                  THEN [NoDoc EXCEPT !.exists = TRUE, !.uid = ProvIds[1],
                                     !.name = trim(N_StudentRaw),
                                     !.email = NormalizeEmail(E_StudentRaw),
                                     !.userType = "student", !.status = "pending",
                                     !.personalId = U_Personal]
                ELSE NoDoc]
  /\ pendingActivations =
       [k \in IndexKeys |->
          IF k = EmailKey(NormalizeEmail(E_StudentRaw))
            THEN [exists |-> TRUE, studentDocId |-> ProvIds[1], status |-> "pending"]
            ELSE NoIndex]
  /\ docSeq = 1

InitOps ==
  /\ SessionInit
  /\ RouterInit /\ hash = P_Empty
  /\ AuthInit /\ PureInit
  /\ StoreInit \/ \E withAccount \in BOOLEAN : StorePending(withAccount)
  /\ authUser \in { NULL, U_Personal }

\* Every operation of the AuthManager, called on its own by a page script, from
\* the stores above.
NextOps ==
  \/ ~initializationPromise /\ Initialize
  \/ CallbackStart
  \/ \E i \in 1..Len(callbacks), ok \in BOOLEAN : CallbackFetched(i, ok)
  \/ \E p \in Procs, cred \in LoginInputs :
        Within(MaxOpsCalls) /\ LoginCall(p, cred[1], cred[2])
  \/ \E p \in Procs, ok \in BOOLEAN : LoginSignIn(p, ok)
  \/ \E p \in Procs, ok \in BOOLEAN : LoginGetDoc(p, ok)
  \/ \E p \in Procs, ok \in BOOLEAN : LoginSignOut(p, ok)
  \/ \E p \in Procs : Within(MaxOpsCalls) /\ LogoutCall(p)
  \/ \E p \in Procs, ok \in BOOLEAN : LogoutSignOut(p, ok)
  \/ \E p \in Procs : LogoutSettled(p)
  \/ \E p \in Procs : LogoutInitialize(p)
  \/ \E p \in Procs : LogoutReturns(p)
  \/ \E p \in Procs, cred \in SignupInputs :
        Within(MaxOpsCalls) /\ SignupCall(p, cred[1], cred[2], N_Signup)
  \/ \E p \in Procs, ok \in BOOLEAN : SignupCreateUser(p, ok)
  \/ \E p \in Procs, ok \in BOOLEAN : SignupSetDoc(p, ok)
  \/ \E p \in Procs :
        Within(MaxOpsCalls) /\ CreateCall(p, N_StudentRaw, E_StudentRaw)
  \/ \E p \in Procs, ok \in BOOLEAN : CreateQuery(p, ok)
  \/ \E p \in Procs, ok \in BOOLEAN : CreateSetDoc(p, ok)
  \/ \E p \in Procs, ok \in BOOLEAN : CreateUpdateList(p, ok)
  \/ \E p \in Procs, ok \in BOOLEAN : CreateSetIndex(p, ok)
  \/ \E p \in Procs : Within(MaxOpsCalls) /\ CheckCall(p, E_StudentRaw)
  \/ \E p \in Procs, ok \in BOOLEAN : CheckGetIndex(p, ok)
  \/ \E p \in Procs, ok \in BOOLEAN : CheckGetStudent(p, ok)
  \/ \E p \in Procs, password \in { PW_Good, PW_Short }, d \in HandedOut :
        Within(MaxOpsCalls) /\ ActivateCall(p, E_StudentRaw, password, d)
  \/ \E p \in Procs, ok \in BOOLEAN : ActivateGetProvisory(p, ok)
  \/ \E p \in Procs, ok \in BOOLEAN : ActivateCreateUser(p, ok)
  \/ \E p \in Procs, ok \in BOOLEAN : ActivateSignIn(p, ok)
  \/ \E p \in Procs, ok \in BOOLEAN : ActivateGetExisting(p, ok)
  \/ \E p \in Procs, ok \in BOOLEAN : ActivateSetFinal(p, ok)
  \/ \E p \in Procs, ok \in BOOLEAN : ActivateDeleteProvisory(p, ok)
  \/ \E p \in Procs, ok \in BOOLEAN : ActivateListRemove(p, ok)
  \/ \E p \in Procs, ok \in BOOLEAN : ActivateListUnion(p, ok)
  \/ \E p \in Procs, ok \in BOOLEAN : ActivateDeleteIndex(p, ok)


SpecOps == InitOps /\ [][NextOps]_vars

\* ------------------------------------------------------------------ activation specification
\* The first-access page (nobody signed in) after an activation that stopped
\* once the identity was made (auth.js:295) and before the final record was
\* written (auth.js:316): the provisional record and the index entry are there,
\* and so is the account.
InitActivate ==
  /\ SessionInit
  /\ RouterInit /\ hash = P_Empty
  /\ AuthInit /\ PureInit
  /\ StorePending(TRUE)
  /\ authUser = NULL

\* activateStudentAccount called again, with the id checkPendingStudent handed
\* out or with the id of a record that is not there.
NextActivate ==
  \/ ~initializationPromise /\ Initialize
  \/ CallbackStart
  \/ \E i \in 1..Len(callbacks), ok \in BOOLEAN : CallbackFetched(i, ok)
  \/ \E p \in Procs, password \in { PW_Good, PW_Short },
        d \in { ProvIds[i] : i \in 1..Len(ProvIds) } :
        Within(MaxActivateCalls) /\ ActivateCall(p, E_StudentRaw, password, d)
  \/ \E p \in Procs, ok \in BOOLEAN : ActivateGetProvisory(p, ok)
  \/ \E p \in Procs, ok \in BOOLEAN : ActivateCreateUser(p, ok)
  \/ \E p \in Procs, ok \in BOOLEAN : ActivateSignIn(p, ok)
  \/ \E p \in Procs, ok \in BOOLEAN : ActivateGetExisting(p, ok)
  \/ \E p \in Procs, ok \in BOOLEAN : ActivateSetFinal(p, ok)
  \/ \E p \in Procs, ok \in BOOLEAN : ActivateDeleteProvisory(p, ok)
  \/ \E p \in Procs, ok \in BOOLEAN : ActivateListRemove(p, ok)
  \/ \E p \in Procs, ok \in BOOLEAN : ActivateListUnion(p, ok)
  \/ \E p \in Procs, ok \in BOOLEAN : ActivateDeleteIndex(p, ok)

SpecActivate == InitActivate /\ [][NextActivate]_vars

\* ------------------------------------------------------------------ resumed activation specification
\* the store and the provider after an activation that stopped once the final
\* record was written (auth.js:316-322) and before the provisional record, the
\* trainer's list and the index entry were dealt with (auth.js:325-352)
StoreMigrated ==
  /\ accounts = [e \in KnownEmails |->
                   IF e = E_Trainer THEN [exists |-> TRUE, uid |-> U_Personal, password |-> PW_Good]
                   ELSE IF e = E_Inactive THEN [exists |-> TRUE, uid |-> U_Inactive, password |-> PW_Good]
                   ELSE IF e = E_Student THEN [exists |-> TRUE, uid |-> U_Student, password |-> PW_Good]
                   ELSE NoAccount]
  /\ users = [d \in DocIds |->
                IF d = U_Personal
                  THEN [NoDoc EXCEPT !.exists = TRUE, !.uid = U_Personal,
                                     !.name = << "T" >>, !.email = E_Trainer,
                                     !.userType = "personal", !.status = "active",
                                     !.students = { U_Inactive, ProvIds[1] }]
                ELSE IF d = U_Inactive
                  THEN [NoDoc EXCEPT !.exists = TRUE, !.uid = U_Inactive,
                                     !.name = << "I" >>, !.email = E_Inactive,
                                     !.userType = "student", !.status = "inactive",
                                     !.personalId = U_Personal, !.authUid = U_Inactive]
                ELSE IF d = ProvIds[1]
                  THEN [NoDoc EXCEPT !.exists = TRUE, !.uid = ProvIds[1],
                                     !.name = trim(N_StudentRaw),
                                     !.email = NormalizeEmail(E_StudentRaw),
                                     !.userType = "student", !.status = "pending",
                                     !.personalId = U_Personal]
                ELSE IF d = U_Student
                  THEN [NoDoc EXCEPT !.exists = TRUE, !.uid = U_Student,
                                     !.name = trim(N_StudentRaw),
                                     !.email = NormalizeEmail(E_StudentRaw),
                                     !.userType = "student", !.status = "active",
                                     !.personalId = U_Personal, !.authUid = U_Student]
                ELSE NoDoc]
  /\ pendingActivations =
       [k \in IndexKeys |->
          IF k = EmailKey(NormalizeEmail(E_StudentRaw))
            THEN [exists |-> TRUE, studentDocId |-> ProvIds[1], status |-> "pending"]
            ELSE NoIndex]
  /\ docSeq = 1

\* The first-access page after an activation that stopped before or after the
\* write of the final record.
InitResume ==
  /\ SessionInit
  /\ RouterInit /\ hash = P_Empty
  /\ AuthInit /\ PureInit
  /\ StorePending(TRUE) \/ StoreMigrated
  /\ authUser = NULL

\* The first-access page: checkPendingStudent and activateStudentAccount with
\* the id it hands out.
NextResume ==
  \/ ~initializationPromise /\ Initialize
  \/ CallbackStart
  \/ \E i \in 1..Len(callbacks), ok \in BOOLEAN : CallbackFetched(i, ok)
  \/ \E p \in Procs : Within(MaxResumeCalls) /\ CheckCall(p, E_StudentRaw)
  \/ \E p \in Procs, ok \in BOOLEAN : CheckGetIndex(p, ok)
  \/ \E p \in Procs, ok \in BOOLEAN : CheckGetStudent(p, ok)
  \/ \E p \in Procs, d \in HandedOut :
        Within(MaxResumeCalls) /\ ActivateCall(p, E_StudentRaw, PW_Good, d)
  \/ \E p \in Procs, ok \in BOOLEAN : ActivateGetProvisory(p, ok)
  \/ \E p \in Procs, ok \in BOOLEAN : ActivateCreateUser(p, ok)
  \/ \E p \in Procs, ok \in BOOLEAN : ActivateSignIn(p, ok)
  \/ \E p \in Procs, ok \in BOOLEAN : ActivateGetExisting(p, ok)
  \/ \E p \in Procs, ok \in BOOLEAN : ActivateSetFinal(p, ok)
  \/ \E p \in Procs, ok \in BOOLEAN : ActivateDeleteProvisory(p, ok)
  \/ \E p \in Procs, ok \in BOOLEAN : ActivateListRemove(p, ok)
  \/ \E p \in Procs, ok \in BOOLEAN : ActivateListUnion(p, ok)
  \/ \E p \in Procs, ok \in BOOLEAN : ActivateDeleteIndex(p, ok)

SpecResume == InitResume /\ [][NextResume]_vars

\* ------------------------------------------------------------------ login specification
\* The login page (nobody signed in) with, among the accounts, the one an
\* interrupted activation left without a profile record (auth.js:295).
InitLogin ==
  /\ SessionInit
  /\ RouterInit /\ hash = P_Empty
  /\ AuthInit /\ PureInit
  /\ StorePending(TRUE)
  /\ authUser = NULL

\* the credentials typed into the login page
LoginPageInputs == { << E_Trainer, PW_Good >>, << E_Inactive, PW_Good >>,
                     << E_Student, PW_Good >>, << E_Student, PW_Short >> }

NextLogin ==
  \/ ~initializationPromise /\ Initialize
  \/ CallbackStart
  \/ \E i \in 1..Len(callbacks), ok \in BOOLEAN : CallbackFetched(i, ok)
  \/ \E p \in Procs, cred \in LoginPageInputs :
        Within(MaxLoginCalls) /\ LoginCall(p, cred[1], cred[2])
  \/ \E p \in Procs, ok \in BOOLEAN : LoginSignIn(p, ok)
  \/ \E p \in Procs, ok \in BOOLEAN : LoginGetDoc(p, ok)
  \/ \E p \in Procs, ok \in BOOLEAN : LoginSignOut(p, ok)

SpecLogin == InitLogin /\ [][NextLogin]_vars

\* ------------------------------------------------------------------ activation with any address
\* The first-access page (nobody signed in) after createStudentAccount for the
\* student's address; the page script passes on the address typed and the id it
\* holds (auth.js:279), which need not belong together.
InitOther ==
  /\ SessionInit
  /\ RouterInit /\ hash = P_Empty
  /\ AuthInit /\ PureInit
  /\ \E withAccount \in BOOLEAN : StorePending(withAccount)
  /\ authUser = NULL

NextOther ==
  \/ ~initializationPromise /\ Initialize
  \/ CallbackStart
  \/ \E i \in 1..Len(callbacks), ok \in BOOLEAN : CallbackFetched(i, ok)
  \/ \E p \in Procs, email \in { E_StudentRaw, E_Signup }, d \in HandedOut :
        Within(MaxOtherCalls) /\ ActivateCall(p, email, PW_Good, d)
  \/ \E p \in Procs, ok \in BOOLEAN : ActivateGetProvisory(p, ok)
  \/ \E p \in Procs, ok \in BOOLEAN : ActivateCreateUser(p, ok)
  \/ \E p \in Procs, ok \in BOOLEAN : ActivateSignIn(p, ok)
  \/ \E p \in Procs, ok \in BOOLEAN : ActivateGetExisting(p, ok)
  \/ \E p \in Procs, ok \in BOOLEAN : ActivateSetFinal(p, ok)
  \/ \E p \in Procs, ok \in BOOLEAN : ActivateDeleteProvisory(p, ok)
  \/ \E p \in Procs, ok \in BOOLEAN : ActivateListRemove(p, ok)
  \/ \E p \in Procs, ok \in BOOLEAN : ActivateListUnion(p, ok)
  \/ \E p \in Procs, ok \in BOOLEAN : ActivateDeleteIndex(p, ok)

SpecOther == InitOther /\ [][NextOther]_vars

\* ------------------------------------------------------------------ deletion specification
\* The trainer, signed in, with a student who has not activated the account
\* yet, or whose activation stopped once the identity was made.
InitDelete ==
  /\ SessionInit
  /\ RouterInit /\ hash = P_Empty
  /\ AuthInit /\ PureInit
  /\ \E withAccount \in BOOLEAN : StorePending(withAccount)
  /\ authUser = U_Personal

\* The trainer deletes the student; while deleteStudent is under way the student
\* activates the account.  The activation works on the same provider and store;
\* of the session it shares, deleteStudent has read the identity when it was
\* called (auth.js:184).
NextDelete ==
  \/ ~initializationPromise /\ Initialize
  \/ CallbackStart
  \/ \E i \in 1..Len(callbacks), ok \in BOOLEAN : CallbackFetched(i, ok)
  \/ \E d \in HandedOut : Within(MaxDeleteCalls) /\ DeleteCall(FirstProc, d)
  \/ \E p \in Procs, ok \in BOOLEAN : DeleteGetStudent(p, ok)
  \/ \E p \in Procs, ok \in BOOLEAN : DeleteIndex(p, ok)
  \/ \E p \in Procs, ok \in BOOLEAN : DeleteListRemove(p, ok)
  \/ \E p \in Procs, ok \in BOOLEAN : DeleteDoc(p, ok)
  \/ \E p \in Procs \ { FirstProc }, d \in HandedOut :
        Within(MaxDeleteCalls) /\ ActivateCall(p, E_StudentRaw, PW_Good, d)
  \/ \E p \in Procs, ok \in BOOLEAN : ActivateGetProvisory(p, ok)
  \/ \E p \in Procs, ok \in BOOLEAN : ActivateCreateUser(p, ok)
  \/ \E p \in Procs, ok \in BOOLEAN : ActivateSignIn(p, ok)
  \/ \E p \in Procs, ok \in BOOLEAN : ActivateGetExisting(p, ok)
  \/ \E p \in Procs, ok \in BOOLEAN : ActivateSetFinal(p, ok)
  \/ \E p \in Procs, ok \in BOOLEAN : ActivateDeleteProvisory(p, ok)
  \/ \E p \in Procs, ok \in BOOLEAN : ActivateListRemove(p, ok)
  \/ \E p \in Procs, ok \in BOOLEAN : ActivateListUnion(p, ok)
  \/ \E p \in Procs, ok \in BOOLEAN : ActivateDeleteIndex(p, ok)

SpecDelete == InitDelete /\ [][NextDelete]_vars


\* ------------------------------------------------------------------ claims about the Router
\* the canonical dashboard of a role; a session without a role has none
CanonicalDashboard(type) ==
  IF type = "personal" THEN P_PersonalDashboard
  ELSE IF type = "student" THEN P_StudentDashboard
  ELSE NoPath

\* the step in which the guards of _navigate decide about navPath
GuardStep == navPc = "guard" /\ navPc' # "guard"

\* the step neither loads a page nor changes currentPath, and ends _navigate
NothingLoaded ==
  /\ loads' = loads
  /\ currentPath' = currentPath
  /\ navPc' = "none"
  /\ isNavigating' = FALSE

\* C1: _navigate(p) for a path p with a required role, run while there is no
\* identity, redirects to the login path, loads no page and leaves currentPath as
\* it was.
C1_UnauthenticatedRedirectsToLogin ==
  [][ (GuardStep /\ getRequiredType(navPath) # NULL /\ ~isAuthenticated)
        => (hash' = P_Login /\ NothingLoaded) ]_vars

\* C1 witness: the guards have just sent an unauthenticated request for the
\* protected path with a parameter to the login path
C1_Witness ==
  /\ lastNav.kind = "redirect"
  /\ lastNav.path = P_Student42
  /\ ~lastNav.auth
  /\ lastNav.to = P_Login
  /\ hash = P_Login
  /\ currentPath # P_Student42
  /\ loads = << >>

\* C2 (as claimed): the page of a protected path is loaded only if, when the
\* guards ran, the session had an identity and its role was the required one.
C2_LoadOnlyWithRequiredRole ==
  (lastNav.kind = "load" /\ getRequiredType(lastNav.path) # NULL)
    => (lastNav.auth /\ lastNav.type = getRequiredType(lastNav.path))

\* C3 (as claimed): a request for a protected path by an authenticated session
\* whose role is not the required one is redirected to the canonical dashboard of
\* the session's role and not loaded, unless the path is that dashboard.
C3_MismatchRedirectsToOwnDashboard ==
  ( /\ lastNav.kind # "none"
    /\ getRequiredType(lastNav.path) # NULL
    /\ lastNav.auth
    /\ lastNav.type # getRequiredType(lastNav.path) )
    => \/ lastNav.path = CanonicalDashboard(lastNav.type)
       \/ lastNav.kind = "redirect" /\ lastNav.to = CanonicalDashboard(lastNav.type)

\* C4: a request for a public path by a session with an identity and a known role
\* is redirected to that role's dashboard without a page load, every time.
C4_PublicRedirectsToDashboard ==
  [][ ( /\ GuardStep
        /\ navPath \in publicRoutes
        /\ isAuthenticated
        /\ currentUserType \in { "personal", "student" } )
        => (hash' = CanonicalDashboard(currentUserType) /\ NothingLoaded) ]_vars

\* C4 witness: "/login" requested by a trainer has been redirected to
\* "/personal/dashboard" for the second time
C4_Witness ==
  /\ lastNav.kind = "redirect"
  /\ lastNav.rep
  /\ lastNav.path = P_Login
  /\ lastNav.auth /\ lastNav.type = "personal"
  /\ lastNav.to = P_PersonalDashboard
  /\ hash = P_PersonalDashboard

\* C5: with an identity but no role, a request for a public path is not
\* redirected: its page is loaded (or is the page already shown).
C5_NoRoleLoadsPublicPage ==
  [][ (GuardStep /\ navPath \in publicRoutes /\ isAuthenticated
         /\ currentUserType = NULL)
        => /\ hash' = hash
           /\ IF currentPath = navPath
                THEN NothingLoaded
                ELSE /\ loads' = Append(loads, [path |-> navPath,
                                                page |-> PageOf(navPath),
                                                phase |-> "fetch",
                                                awaited |-> TRUE])
                     /\ navPc' = "load" ]_vars

\* C5 witness: the load of "/login" has started for a session with an identity
\* and no role
C5_Witness ==
  /\ lastNav.kind = "load"
  /\ lastNav.path = P_Login
  /\ lastNav.auth /\ lastNav.type = NULL
  /\ hash # P_StudentDashboard
  /\ \E i \in 1..Len(loads) : loads[i].awaited /\ loads[i].page = "pages/login.html"

\* C6 (as claimed): at most one _navigate and at most one loadPage execution is
\* in progress at any moment.
C6_OneLoadAtATime == Len(loads) <= 1

\* s without its immediately repeated elements
RECURSIVE Collapse(_)
Collapse(s) ==
  IF Len(s) <= 1 THEN s
  ELSE IF s[1] = s[2] THEN Collapse(Tail(s))
  ELSE << s[1] >> \o Collapse(Tail(s))

\* s can be obtained from t by deleting elements
RECURSIVE IsSubseq(_, _)
IsSubseq(s, t) ==
  IF s = << >> THEN TRUE
  ELSE IF t = << >> THEN FALSE
  ELSE IF s[1] = t[1] THEN IsSubseq(Tail(s), Tail(t))
  ELSE IsSubseq(s, Tail(t))

\* the entries put into the queue since the running _navigate began
pushedNow == SubSeq(navigationQueue, qBase + 1, Len(navigationQueue))

\* C7: the queue never holds two adjacent equal paths; the requests that arrive
\* during a navigation enter it in arrival order, an immediate repetition once;
\* and the queue is processed from its head.
C7_QueueCollapsesAndKeepsOrder ==
  /\ [](\A i \in 1..(Len(navigationQueue) - 1) :
           navigationQueue[i] # navigationQueue[i+1])
  /\ [](isNavigating => IsSubseq(pushedNow, Collapse(arrivedNow)))
  /\ [][ (loopPc = "next" /\ navigationQueue # << >>)
           => /\ navPath' = NormalizePath(Head(navigationQueue))
              /\ navigationQueue' = Tail(navigationQueue) ]_vars

\* C7 witness: [a, a, b] arrived during one navigation and the queue got [a, b]
C7_Witness ==
  /\ isNavigating
  /\ Len(arrivedNow) = 3
  /\ arrivedNow[1] = arrivedNow[2]
  /\ arrivedNow[2] # arrivedNow[3]
  /\ navigationQueue = << arrivedNow[1], arrivedNow[3] >>

\* ------------------------------------------------------------------ claims about the AuthManager
\* the operation of result r ran from call to return with no other operation in
\* progress, after the first k operations had returned
RanAfter(r, k) == r.alone /\ r.begin >= k

\* a login of the deactivated student
InactiveLogin(c) == c.op = "login" /\ c.email = E_Inactive

\* C8 (as claimed): a login of a student whose profile status is inactive never
\* gives the session an identity, neither while the call runs nor after it, and
\* when it has returned failure for the deactivation the provider is signed out.
C8_InactiveLoginNeverAuthenticated ==
  /\ (\E p \in Procs : InactiveLogin(calls[p])) => currentUser # U_Inactive
  /\ (\E i \in 1..Len(results) : InactiveLogin(results[i])) => currentUser # U_Inactive
  /\ ( /\ results # << >>
       /\ InactiveLogin(results[Len(results)])
       /\ results[Len(results)].last = "signOut"
       /\ \A p \in Procs : ~Busy(p) )
       => authUser = NULL

\* the final profile records for an e-mail address: keyed by the identity's id,
\* status active
FinalRecords(email) ==
  { d \in DocIds : /\ users[d].exists
                   /\ users[d].email = email
                   /\ users[d].status = "active"
                   /\ users[d].uid = d /\ users[d].authUid = d }

\* C9 (as claimed): of two calls of activateStudentAccount in sequence with the
\* same arguments, the first completing all its steps, both return success, and
\* exactly one final profile record exists afterwards.
C9_ActivateTwiceSucceeds ==
  \A j \in 2..Len(results) :
    LET first  == results[j - 1]
        second == results[j]
    IN  ( /\ first.op = "activate" /\ second.op = "activate"
          /\ first.alone /\ RanAfter(second, j - 1)
          /\ << first.email, first.password, first.docId >>
               = << second.email, second.password, second.docId >>
          /\ first.res.kind = "success" /\ first.last = "s7" /\ first.full )
          => /\ second.res.kind = "success"
             /\ (j = Len(results) /\ \A p \in Procs : ~Busy(p))
                  => Cardinality(FinalRecords(NormalizeEmail(first.email))) = 1

\* the results, among the first k, of successful calls of operation op for the
\* e-mail address of result r
Succeeded(op, r, k) ==
  { i \in 1..k : /\ results[i].op = op
                 /\ NormalizeEmail(results[i].email) = NormalizeEmail(r.email)
                 /\ results[i].res.kind = "success" }

\* C10 (as claimed): checkPendingStudent follows the life of the account: it
\* returns alreadyActive after a successful activateStudentAccount for the
\* address; else exists with the provisional id, name and trainer after a
\* successful createStudentAccount; else, with no index entry, noIndex.
C10_CheckFollowsLifecycle ==
  \A j \in 1..Len(results) :
    LET r == results[j]
    IN  (r.op = "check" /\ r.alone /\ r.res.kind # "error")
          => IF Succeeded("activate", r, r.begin) # {}
               THEN r.res.kind = "alreadyActive"
             ELSE IF Succeeded("create", r, r.begin) # {}
               THEN \E i \in Succeeded("create", r, r.begin) :
                      /\ r.res.kind = "exists"
                      /\ r.res.studentDocId = results[i].res.studentDocId
                      /\ r.res.name = trim(results[i].name)
                      /\ r.res.personalId = results[i].user
             ELSE r.res.kind = "noIndex"

\* ------------------------------------------------------------------ claims about matchRoute
\* the segments of a path, by the positions of its separators
SlashCount(s) == Cardinality({ k \in 1..Len(s) : s[k] = "/" })
SlashAt(s, n) ==
  IF n = 0 THEN 0
  ELSE IF n > SlashCount(s) THEN Len(s) + 1
  ELSE CHOOSE k \in 1..Len(s) :
         s[k] = "/" /\ Cardinality({ j \in 1..k : s[j] = "/" }) = n
Segment(s, n) == SubSeq(s, SlashAt(s, n - 1) + 1, SlashAt(s, n) - 1)
SegmentCount(s) == SlashCount(s) + 1
IsParameter(seg) == seg # << >> /\ seg[1] = ":"

\* the pattern has a parameter, as many segments as the path, and its other
\* segments are the path's
Fits(pattern, path) ==
  /\ \E n \in 1..SegmentCount(pattern) : IsParameter(Segment(pattern, n))
  /\ SegmentCount(pattern) = SegmentCount(path)
  /\ \A n \in 1..SegmentCount(pattern) :
        IsParameter(Segment(pattern, n)) \/ Segment(pattern, n) = Segment(path, n)

\* C11: matchRoute(path) is the pattern equal to path when path is a key of the
\* table; else the first pattern in table order that has a parameter, as many
\* segments as path and the same other segments, with each parameter name
\* mapped to the segment in its place; else null.  "/personal/student/42"
\* matches "/personal/student/:id" with id = "42", and
\* "/personal/student/42/extra" matches nothing.
C11_MatchRouteResult ==
  matchResult # Pending =>
    /\ IF \E i \in 1..Len(routes) : routes[i].pattern = matchPath
         THEN matchResult = [route |-> matchPath, params |-> {}]
       ELSE LET fit == { i \in 1..Len(routes) : Fits(routes[i].pattern, matchPath) }
            IN  IF fit = {}
                  THEN matchResult = [route |-> NoPath, params |-> {}]
                  ELSE \E i \in fit :
                         /\ \A j \in fit : i <= j
                         /\ matchResult.route = routes[i].pattern
                         /\ matchResult.params =
                              { << Tail(Segment(routes[i].pattern, n)),
                                   Segment(matchPath, n) >> :
                                  n \in { k \in 1..SegmentCount(matchPath) :
                                            IsParameter(Segment(routes[i].pattern, k)) } }
    /\ matchPath = P_Student42
         => matchResult = [route  |-> P_StudentDetails,
                           params |-> { << << "id" >>, << "42" >> >> }]
    /\ matchPath = P_Student42 \o << "/", "extra" >> => matchResult.route = NoPath

\* C11 witness: matchRoute has answered for "/personal/student/42" with the
\* pattern "/personal/student/:id" and the parameter id = "42"
C11_Witness ==
  /\ matchPath = P_Student42
  /\ matchResult.route = P_StudentDetails
  /\ matchResult.params = { << << "id" >>, << "42" >> >> }

\* ------------------------------------------------------------------ C12
\* logout, which runs reinitialize(), has not been called
NoLogoutYet ==
  /\ \A p \in Procs : calls[p].op # "logout"
  /\ \A i \in 1..Len(results) : results[i].op # "logout"

\* C12: initialize is idempotent.  While nothing has reset the initialization,
\* however many times initialize() has been called there is exactly one
\* subscription to the provider, every call has been handed the promise of that
\* subscription, a further call would be handed it too, and that promise is
\* resolved exactly when isInitialized is true, which, until an operation is
\* called, is when the provider's first notification has been processed.
C12_InitializeIdempotent ==
  NoLogoutYet /\ initializationPromise =>
    /\ Len(subs) = 1
    /\ subs[1].holders \in 1..MaxInitCalls
    /\ InitializeResult = 1
    /\ subs[1].resolved <=> isInitialized
    /\ \A i \in 1..Len(notifications) : notifications[i].sub = 1
    /\ \A i \in 1..Len(callbacks) : callbacks[i].sub = 1
    /\ (results = << >> /\ \A p \in Procs : ~Busy(p)) =>
         (subs[1].resolved <=> notifications = << >> /\ callbacks = << >>)

\* initialize() was called twice before the provider's first notification was
\* processed
C12_Witness ==
  /\ NoLogoutYet
  /\ Len(subs) = 1
  /\ subs[1].holders = 2
  /\ ~subs[1].resolved
  /\ ~isInitialized
  /\ Len(notifications) = 1
  /\ callbacks = << >>

\* ------------------------------------------------------------------ C13
\* this step is the return of a logout() call
LogoutReturned ==
  /\ Len(results') = Len(results) + 1
  /\ results'[Len(results')].op = "logout"

\* C13: logout always returns success, also when the provider's sign-out
\* throws, and when it returns the local session has no identity and no role.
C13_LogoutLeavesNoSession ==
  [][LogoutReturned =>
       /\ results'[Len(results')].res = Success
       /\ currentUser' = NULL
       /\ currentUserType' = NULL]_vars

\* ------------------------------------------------------------------ C14
\* in this step a call of the provider or the store made by the operation of
\* caller p fails
FailsFor(p) == faults' = faults + 1 /\ Busy(p) /\ calls'[p] # calls[p]

\* in this step the operation of caller p returns a failure with a message
ReturnsFailure(p) ==
  /\ ~Busy(p)'
  /\ Len(results') = Len(results) + 1
  /\ results'[Len(results')].op = calls[p].op
  /\ results'[Len(results')].res.kind \in { "failure", "error" }
  /\ results'[Len(results')].res.error # ""

\* the steps whose failure the code catches and passes over: logout's sign-out
\* and steps 5 to 7 of activateStudentAccount
BestEffort(c) ==
  \/ c.op = "logout"
  \/ c.op = "activate" /\ c.pc \in { "s5", "s6remove", "s6union", "s7" }

\* C14 as stated: every failure of the provider or the store at any step of
\* login, logout, signupPersonal, createStudentAccount, checkPendingStudent or
\* activateStudentAccount makes the operation resolve to a result with a
\* failure indication and a message.
C14_EveryFailureReturnsFailure ==
  [][\A p \in Procs : FailsFor(p) => ReturnsFailure(p)]_vars

\* C14, amended: the six operations always resolve to a result value.  A failure
\* of the provider or the store makes the operation return at once a failure
\* with a message, except at logout's sign-out and at steps 5 to 7 of
\* activateStudentAccount, where the operation goes on and does not return a
\* failure; every result is one of the known kinds and a failure always has a
\* message.
C14_FailuresReturnedOrPassedOver ==
  [][/\ \A p \in Procs :
          FailsFor(p) =>
            IF BestEffort(calls[p])
              THEN Busy(p)' \/ results'[Len(results')].res = Success
              ELSE ReturnsFailure(p)
     /\ \A i \in 1..Len(results') :
          /\ results'[i].res.kind \in
               { "success", "failure", "error", "noIndex", "alreadyActive", "exists" }
          /\ results'[i].res.kind \in { "failure", "error" } <=> results'[i].res.error # ""]_vars

\* the write of the trainer's profile failed and signupPersonal returned a
\* failure
C14_Witness ==
  /\ faults = 1
  /\ results # << >>
  /\ results[1].op = "signup"
  /\ results[1].last = "setDoc"
  /\ results[1].res = Failure("unavailable")

\* ------------------------------------------------------------------ C15
\* in this step createStudentAccount is called and returns before any await
CreateReturnedAtOnce ==
  /\ Len(results') = Len(results) + 1
  /\ results'[Len(results')].op = "create"
  /\ \A p \in Procs : calls[p].op = "create" => calls'[p] = calls[p]

\* in this step createStudentAccount is called
CreateCalled ==
  \/ CreateReturnedAtOnce
  \/ \E p \in Procs : ~Busy(p) /\ calls'[p].op = "create"

\* C15: createStudentAccount called when the current role is not personal (no
\* session, role student, or role absent) returns a failure without awaiting
\* anything and writes nothing to the store: no provisional record, no change
\* to a student list, no index entry.
C15_CreateNeedsPersonalRole ==
  [][CreateCalled /\ currentUserType # "personal" =>
       /\ CreateReturnedAtOnce
       /\ results'[Len(results')].res.kind = "failure"
       /\ results'[Len(results')].res.error # ""
       /\ \A p \in Procs : calls'[p].op # "create" \/ calls[p].op = "create"
       /\ users' = users
       /\ pendingActivations' = pendingActivations
       /\ docSeq' = docSeq]_vars

\* a signed-in student called createStudentAccount and was refused
C15_Witness ==
  /\ currentUser = U_Student
  /\ currentUserType = "student"
  /\ results # << >>
  /\ results[Len(results)].op = "create"
  /\ results[Len(results)].user = U_Student
  /\ results[Len(results)].res = Failure("only trainers create students")

\* ------------------------------------------------------------------ C16
\* in this step the fetch of the page _navigate is loading fails
AwaitedFetchFails ==
  \E i \in 1..Len(loads) :
    /\ loads[i].phase = "fetch"
    /\ loads[i].awaited
    /\ loads' = RemoveAt(loads, i)

\* C16: when loading the page of a navigation fails, currentPath keeps the
\* value it had before that navigation and the pending queue is not altered.
C16_FailedLoadKeepsCurrentPath ==
  [][AwaitedFetchFails =>
       /\ currentPath' = currentPath
       /\ navigationQueue' = navigationQueue]_vars

\* ------------------------------------------------------------------ fairness
\* The browser runs every continuation and timer that is ready, and every fetch
\* is answered or fails: while a step of the Router itself can be taken, one
\* is taken.  Requests from outside, events of the user and the steps of
\* AuthManager are under no obligation.
RouterSteps ==
  \/ RouterStart
  \/ InitWaitTimeout
  \/ NavStart
  \/ NavWaitTimeout
  \/ HashChangeEvent
  \/ \E i \in 1..Len(loads), ok \in BOOLEAN : LoadFetch(i, ok)
  \/ \E i \in 1..Len(loads) : LoadMount(i)
  \/ \E i \in 1..Len(loads) : LoadFinish(i)

\* The guards of _navigate (NavGuard) run in one synchronous stretch that
\* nothing holds up: NavGuard can be taken exactly when navPc = "guard" and is
\* the only step that leaves it, so that it is taken once it can be says that
\* navPc does not stay at "guard".
\* The timeout of a waitForAuth fires at the first moment no synchronous
\* stretch is under way, whatever else goes on.
RouterFairness ==
  /\ WF_vars(RouterSteps)
  /\ SF_vars(InitWaitTimeout)
  /\ WF_vars(NavWaitTimeout)
  /\ []<>(navPc # "guard")

\* The Router with fewer requests from outside: the calls of navigate are for
\* the login page and the trainer's dashboard, the user enters a fragment that
\* matches no route, the session is absent or a trainer's.
LivePaths == { P_Login, P_PersonalDashboard }

NextLive ==
  \/ \E path \in LivePaths : NavigateCall(path)
  \/ HashChangeEvent
  \/ UserHashChange(P_Unknown, 1)
  \/ NavStart
  \/ NavWaitPoll
  \/ NavWaitTimeout
  \/ NavGuard
  \/ \E i \in 1..Len(loads), ok \in BOOLEAN : LoadFetch(i, ok)
  \/ \E i \in 1..Len(loads) : LoadMount(i)
  \/ \E i \in 1..Len(loads) : LoadFinish(i)
  \/ RouterStart
  \/ InitWaitPoll
  \/ InitWaitTimeout
  \/ \E user \in { NULL, U_Any }, type \in { NULL, "personal" } :
        SessionChange(user, type)
  \/ AuthInitialized

SpecLive == Init /\ [][NextLive]_vars /\ RouterFairness

\* ------------------------------------------------------------------ C17
\* C17: isNavigating is false whenever no _navigate is executing, whichever way
\* the last one ended, and every path that enters the queue is eventually
\* taken out of it and processed, also after the load of an earlier path
\* failed: a queue that is not empty becomes empty, and a _navigate that runs
\* ends.
C17_BusyFlagClearedAndQueueDrains ==
  /\ [](navPc = "none" => ~isNavigating)
  /\ [](navPc # "none" => isNavigating)
  /\ (navigationQueue # << >>) ~> (navigationQueue = << >>)
  /\ (navPc # "none") ~> (navPc = "none")

\* a _navigate has just ended by a redirect while another path waits in the
\* queue
C17_Witness ==
  /\ lastNav.kind = "redirect"
  /\ navPc = "none"
  /\ ~isNavigating
  /\ navigationQueue # << >>

\* ------------------------------------------------------------------ C18
\* in this step a waitForAuth resolves: the one of init, or the one of _navigate
WaitForAuthResolves ==
  \/ initPc # "done" /\ initPc' = "done"
  \/ navPc = "waitAuth" /\ navPc' # "waitAuth"
  \/ navPc = "none" /\ navPc' = "guard"

\* C18: waitForAuth always eventually resolves and sets authReady.  It resolves
\* in the step that calls it when AuthManager is initialized; a waitForAuth
\* that is waiting resolves later, when the interval sees the initialization
\* or when the timeout fires although AuthManager never initializes; whenever
\* it resolves authReady is true, and authReady stays true.
C18_WaitForAuthResolves ==
  /\ [][WaitForAuthResolves => authReady']_vars
  /\ [][authReady => authReady']_vars
  /\ [][initPc = "start" /\ initPc' # "start" /\ isInitialized => initPc' = "done"]_vars
  /\ [][navPc = "none" /\ navPc' # "none" /\ isInitialized => navPc' = "guard"]_vars
  /\ (initPc = "waiting") ~> (initPc = "done" /\ authReady)
  /\ (navPc = "waitAuth") ~> (navPc # "waitAuth" /\ authReady)

\* the waitForAuth of init was resolved by its timeout: AuthManager is not
\* initialized
C18_Witness ==
  /\ initPc = "done"
  /\ authReady
  /\ isReady
  /\ ~isInitialized

\* ------------------------------------------------------------------ C19
\* C19: whenever the session can be read, a role that is present is the role
\* recorded in the profile of the current identity; the role of a previous
\* identity is never seen together with a new identity.
C19_RoleIsOfCurrentIdentity ==
  currentUserType # NULL =>
    /\ currentUser # NULL
    /\ users[currentUser].exists
    /\ users[currentUser].userType = currentUserType

\* ------------------------------------------------------------------ C20
\* every notification delivered has been processed to its end, and no
\* operation is in progress
AllProcessed ==
  /\ subs # << >>
  /\ notifications = << >>
  /\ callbacks = << >>
  /\ \A p \in Procs : ~Busy(p)

\* no operation has written the session itself: the session is what the
\* subscription callback made it
OnlyNotifications ==
  \A i \in 1..Len(results) : results[i].res.kind # "success"

\* C20: once every delivered notification has been processed, the session is
\* the one derived from the latest notification, that is from the identity the
\* provider holds: that identity with the role of its profile record, or no
\* identity and no role; whatever the order in which the fetches completed.
C20_SessionFollowsLatestNotification ==
  AllProcessed /\ OnlyNotifications /\ faults = 0 =>
    /\ currentUser = authUser
    /\ currentUserType =
         IF authUser # NULL /\ users[authUser].exists THEN users[authUser].userType
         ELSE NULL

\* ------------------------------------------------------------------ C21
\* in this step navigate is called, while a _navigate runs, with the path that
\* _navigate is processing
NavigateCalledForRunningPath ==
  /\ isNavigating
  /\ navPc # "none"
  /\ Len(arrivedNow') = Len(arrivedNow) + 1
  /\ NormalizePath(arrivedNow'[Len(arrivedNow')]) = navPath

\* C21: navigate(p) called while p is the path being processed by _navigate
\* is dropped: the queue is left as it is, so p is not processed a second time.
C21_RunningPathIsDropped ==
  [][NavigateCalledForRunningPath => navigationQueue' = navigationQueue]_vars

\* ------------------------------------------------------------------ C22
\* in this step _navigate gets past its guards with a path that matches no
\* route pattern
UnmatchedPathProceeds ==
  /\ navPc = "guard"
  /\ navPc' # "guard"
  /\ matchRoute(navPath).route = NoPath
  /\ hash' = hash

\* C22: navigating to a path that matches no route pattern loads the login
\* page resource as part of that navigation and no other resource: the step
\* that gets past the guards starts exactly one load, of pages/login.html,
\* unless the path is the current one and nothing is loaded; and no load is
\* ever under way for a path that matches no pattern.
C22_UnmatchedPathLoadsLogin ==
  /\ [][UnmatchedPathProceeds =>
          IF currentPath = navPath
            THEN loads' = loads
            ELSE /\ Len(loads') = Len(loads) + 1
                 /\ SubSeq(loads', 1, Len(loads)) = loads
                 /\ loads'[Len(loads')].path = P_Login
                 /\ loads'[Len(loads')].page = "pages/login.html"
                 /\ loads'[Len(loads')].phase = "fetch"]_vars
  /\ [](\A i \in 1..Len(loads) : matchRoute(loads[i].path).route # NoPath)

\* _navigate has just ended for a path that matches no pattern, and the fetch
\* of the login page is under way
C22_Witness ==
  /\ lastNav.kind = "fallback"
  /\ lastNav.path = P_Unknown
  /\ currentPath = P_Unknown
  /\ \E i \in 1..Len(loads) :
       loads[i].page = "pages/login.html" /\ loads[i].phase = "fetch" /\ ~loads[i].awaited

\* ------------------------------------------------------------------ C23
\* in this step the subscription callback starts for the oldest notification
CallbackStarts == notifications # << >> /\ notifications' = Tail(notifications)

\* in this step the callback that is i-th in `callbacks` runs to its end
CallbackEnds(i) == i \in 1..Len(callbacks) /\ callbacks' = RemoveAt(callbacks, i)

\* the role recorded in the profile of an identity, if there is a profile
RoleOf(user) == IF users[user].exists THEN users[user].userType ELSE NULL

\* the role recorded in the profile of the callback's identity when the
\* callback asked for it
RoleThen(cb) == IF cb.seen.exists THEN cb.seen.userType ELSE NULL

\* C23: processing one notification.  Without an identity, the identity and the
\* role are both cleared.  With an identity, the identity is set and the
\* profile record awaited; when the record has been read the role is the
\* record's (as it is at some moment of the read), and it is absent when there
\* is no record or the read failed; so
\* the session is (identity, role) unless the identity was changed meanwhile.
\* In every case the callback runs to its end: the promise of its subscription
\* is resolved.
C23_NotificationSetsSession ==
  [][/\ CallbackStarts =>
          LET n == Head(notifications)
          IN  IF n.user = NULL
                THEN /\ currentUser' = NULL
                     /\ currentUserType' = NULL
                     /\ callbacks' = callbacks
                     /\ subs'[n.sub].resolved
                ELSE /\ currentUser' = n.user
                     /\ Len(callbacks') = Len(callbacks) + 1
                     /\ callbacks'[Len(callbacks')].user = n.user
     /\ \A i \in 1..Len(callbacks) :
          CallbackEnds(i) =>
            LET cb == callbacks[i]
            IN  /\ currentUser' = currentUser
                /\ currentUserType' \in
                     IF faults' = faults THEN { RoleOf(cb.user), RoleThen(cb) } ELSE { NULL }
                /\ subs'[cb.sub].resolved
                /\ currentUser = cb.user =>
                     << currentUser', currentUserType' >> \in
                        { << cb.user, RoleOf(cb.user) >>, << cb.user, RoleThen(cb) >>,
                          << cb.user, NULL >> }]_vars

\* the read of the trainer's profile failed in the callback, with no operation
\* called: the session is the trainer without a role, and initialization is
\* complete
C23_Witness ==
  /\ faults = 1
  /\ results = << >>
  /\ \A p \in Procs : ~Busy(p)
  /\ currentUser = U_Personal
  /\ currentUserType = NULL
  /\ notifications = << >>
  /\ callbacks = << >>
  /\ isInitialized

\* ------------------------------------------------------------------ C24
\* in this step the subscription callback gets to notifyListeners(): at once
\* for a notification without an identity, at its end otherwise
CallbackNotifies ==
  \/ CallbackStarts /\ Head(notifications).user = NULL
  \/ \E i \in 1..Len(callbacks) : CallbackEnds(i)

\* C24: on each notification processed, every registered listener is called
\* once with the identity and the role as they are after the state update, the
\* listeners after one that throws included, and the promise of the
\* subscription is resolved all the same.
C24_EveryListenerNotified ==
  [][CallbackNotifies =>
       /\ listeners' = listeners
       /\ \A i \in 1..Len(listeners) :
            heard'[i] = [calls |-> heard[i].calls + 1,
                         user  |-> currentUser',
                         type  |-> currentUserType']
       /\ \A k \in 1..Len(subs) :
            (subs'[k].resolved /\ ~subs[k].resolved) => isInitialized'
       /\ \E k \in 1..Len(subs) : subs'[k].resolved]_vars

\* a listener that throws was registered before one that does not, both before
\* the first notification; the trainer's notification has been processed, both
\* have been called with the trainer's session and initialization is complete
C24_Witness ==
  /\ Len(listeners) = 2
  /\ listeners[1].throws
  /\ ~listeners[2].throws
  /\ heard[1] = [calls |-> 1, user |-> U_Personal, type |-> "personal"]
  /\ heard[2] = [calls |-> 1, user |-> U_Personal, type |-> "personal"]
  /\ results = << >>
  /\ isInitialized

\* ------------------------------------------------------------------ C25
\* C25: after any number of logouts there is one subscription to the provider,
\* the previous one having been removed, and an identity change is delivered,
\* so processed, once.
C25_OneSubscriptionAfterReinitialize ==
  /\ [](Len(subs) <= 1)
  /\ [][Len(notifications') <= Len(notifications) + 1]_vars

\* ---------------------------------------------------------------------------
\* C26: signupPersonal and the notification of the identity it creates
\* ---------------------------------------------------------------------------

\* signupPersonal was the last operation to return, it returned success, and
\* no operation has been called since: no sign-in and no sign-out followed it
SignedUp ==
  /\ results # << >>
  /\ results[Len(results)].op = "signup"
  /\ results[Len(results)].res = Success
  /\ \A p \in Procs : ~Busy(p)

\* the profile record of a personal trainer that has just signed up
SignupRecordWritten ==
  /\ users[U_Signup].exists
  /\ users[U_Signup].userType = "personal"
  /\ users[U_Signup].status = "active"
  /\ users[U_Signup].students = {}

\* C26: after signupPersonal has returned success, and until the next sign-in
\* or sign-out, the profile record keyed by the new identity's id exists with
\* role personal, status active and an empty student list, and, once every
\* callback has run to its end with the new identity as the session identity
\* and no read of the store has failed, the session role is personal, whatever
\* the order of the profile-record write and the callback of the notification
\* the creation of the identity triggered.
C26_SignupRoleStaysPersonal ==
  SignedUp =>
    /\ SignupRecordWritten
    /\ (faults = 0 /\ callbacks = << >> /\ currentUser = U_Signup)
          => currentUserType = "personal"

\* ---------------------------------------------------------------------------
\* C27: one provisional record for one e-mail
\* ---------------------------------------------------------------------------

\* the provisional records: the student records that await activation
Provisional == { d \in DocIds : users[d].exists /\ users[d].userType = "student"
                                  /\ users[d].status = "pending" }

\* C27: whatever createStudentAccount calls were made, in sequence or
\* overlapping, no two provisional records carry the same normalized e-mail.
C27_OneProvisionalRecordPerEmail ==
  \A d, e \in Provisional : users[d].email = users[e].email => d = e

\* ---------------------------------------------------------------------------
\* C28: the write of the pending-activation index in createStudentAccount
\* ---------------------------------------------------------------------------

\* in this step the write of the index entry made by caller p's
\* createStudentAccount fails
IndexWriteFails(p) ==
  /\ calls[p].op = "create"
  /\ calls[p].pc = "setIndex"
  /\ calls'[p] # calls[p]
  /\ faults' = faults + 1

\* C28: when the write of the pending-activation index fails in
\* createStudentAccount, the provisional record still exists and the operation
\* returns success all the same.
C28_IndexFailureNotPropagated ==
  [][\A p \in Procs :
       IndexWriteFails(p) =>
         /\ users'[calls[p].docId].exists
         /\ users'[calls[p].docId].status = "pending"
         /\ ~Busy(p)'
         /\ results'[Len(results')].res.kind = "success"]_vars

\* ---------------------------------------------------------------------------
\* C29: activateStudentAccount tried again after an interrupted activation
\* ---------------------------------------------------------------------------

\* in this step caller p's activateStudentAccount returns; it was called with
\* the student's address, the password of the identity and the provisional id,
\* no other call overlapped it, and no earlier call had completed the
\* activation: the identity was there and the final record was not
RetryReturns(p) ==
  /\ calls[p].op = "activate"
  /\ calls[p].password = PW_Good
  /\ calls[p].docId = ProvIds[1]
  /\ calls[p].alone
  /\ ~Busy(p)'
  /\ Len(results') = Len(results) + 1
  /\ \A i \in 1..Len(results) : results[i].res.kind # "success"

\* the final record of the student, written from the provisional one
FinalRecordWritten ==
  /\ users[U_Student].exists
  /\ users[U_Student].uid = U_Student
  /\ users[U_Student].authUid = U_Student
  /\ users[U_Student].userType = "student"
  /\ users[U_Student].status = "active"
  /\ users[U_Student].email = NormalizeEmail(E_StudentRaw)
  /\ users[U_Student].personalId = U_Personal

\* C29: after an activation that stopped between the creation of the identity
\* and the write of the final record, activateStudentAccount called again with
\* the same address, password and provisional id makes no second identity,
\* signs in with the existing one, writes the final record and returns success;
\* it returns a failure only when a call of the provider or of the store fails
\* at one of the steps 1 to 4.
C29_RetryCompletesActivation ==
  [][/\ accounts' = accounts
     /\ \A p \in Procs :
          RetryReturns(p) =>
            LET r == results'[Len(results')]
            IN  IF faults' = faults \/ BestEffort(calls[p])
                  THEN /\ r.res = Success
                       /\ authUser' = accounts[E_Student].uid
                       /\ FinalRecordWritten'
                       /\ currentUser' = U_Student
                       /\ currentUserType' = "student"
                  ELSE /\ r.res.kind = "failure"
                       /\ r.last \in { "s1", "s2", "s2signIn", "s3", "s4" }]_vars

\* the second call of activateStudentAccount returned success after the first
\* one had failed, and the student is signed in with the final record written
C29_Witness ==
  /\ Len(results) = 2
  /\ results[1].res.kind = "failure"
  /\ results[2].op = "activate"
  /\ results[2].alone
  /\ results[2].last = "s7"
  /\ results[2].res = Success
  /\ authUser = U_Student
  /\ FinalRecordWritten

\* ---------------------------------------------------------------------------
\* C30: activateStudentAccount for a provisional record that is not there
\* ---------------------------------------------------------------------------

\* in this step caller p's activateStudentAccount takes one of its steps
ActivateSteps(p) ==
  /\ calls'[p].pc # calls[p].pc
  /\ calls[p].op = "activate" \/ (~Busy(p) /\ calls'[p].op = "activate")

\* in this step the get of the provisional record of caller p's
\* activateStudentAccount answers that there is no such record
ProvisionalMissing(p) ==
  /\ calls[p].op = "activate"
  /\ calls[p].pc = "s1"
  /\ calls'[p].pc # "s1"
  /\ faults' = faults
  /\ ~users[calls[p].docId].exists

\* C30: when the provisional record does not exist, activateStudentAccount
\* returns a failure from its first step, before createUser or signIn is called:
\* up to and including that step the call creates no identity, signs nobody in,
\* writes no record and no index entry, and leaves the session as it is.
C30_MissingProvisionalFailsFirst ==
  [][\A p \in Procs :
       /\ (ActivateSteps(p) /\ (calls[p].pc = "s1" \/ ~Busy(p))) =>
             /\ accounts' = accounts
             /\ authUser' = authUser
             /\ notifications' = notifications
             /\ users' = users
             /\ pendingActivations' = pendingActivations
             /\ currentUser' = currentUser
             /\ currentUserType' = currentUserType
       /\ ProvisionalMissing(p) =>
             /\ ~Busy(p)'
             /\ Len(results') = Len(results) + 1
             /\ results'[Len(results')].op = "activate"
             /\ results'[Len(results')].last = "s1"
             /\ results'[Len(results')].user = NULL
             /\ results'[Len(results')].res.kind = "failure"
             /\ results'[Len(results')].res.error # ""]_vars

\* activateStudentAccount was called with the id of a record that is not there
\* and returned its failure: the student's record is still to be written and
\* nobody is signed in
C30_Witness ==
  /\ Len(results) = 1
  /\ results[1].op = "activate"
  /\ results[1].docId = ProvIds[2]
  /\ results[1].last = "s1"
  /\ results[1].res = Failure("student data not found")
  /\ faults = 0
  /\ ~users[ProvIds[2]].exists
  /\ ~users[U_Student].exists
  /\ authUser = NULL

\* ---------------------------------------------------------------------------
\* C31: the index after a successful activation
\* ---------------------------------------------------------------------------

\* activateStudentAccount had returned success for the address when k
\* operations had returned
ActivatedFor(email, k) ==
  \E i \in 1..k :
    /\ results[i].op = "activate"
    /\ NormalizeEmail(results[i].email) = NormalizeEmail(email)
    /\ results[i].res = Success

\* C31: once activateStudentAccount has returned success for an address,
\* checkPendingStudent called afterwards for that address never returns
\* exists:true, also when the success came from the already-active test of a
\* retry or when best-effort steps failed.
C31_NoPendingAfterActivation ==
  [][\A p \in Procs :
       (/\ calls[p].op = "check"
        /\ ~Busy(p)'
        /\ ActivatedFor(calls[p].email, calls[p].begin))
         => results'[Len(results')].res.kind # "exists"]_vars

\* ---------------------------------------------------------------------------
\* C32: the best-effort steps of activateStudentAccount
\* ---------------------------------------------------------------------------

\* the steps of activateStudentAccount that follow the write of the final record
AfterFinalRecord == { "s5", "s6remove", "s6union", "s7" }

\* in this step caller p's activateStudentAccount takes one of the steps that
\* follow the write of the final record
BestEffortStep(p) ==
  /\ calls[p].op = "activate"
  /\ calls[p].pc \in AfterFinalRecord
  /\ calls'[p].pc # calls[p].pc

\* C32: once the final record is written, activateStudentAccount goes through
\* the delete of the provisional record, the update of the trainer's list and
\* the delete of the index entry whether they fail or not, and then returns
\* success with the session set to the new identity with role student.
C32_BestEffortFailureKeepsSuccess ==
  [][\A p \in Procs :
       BestEffortStep(p) =>
         IF Busy(p)'
           THEN /\ calls'[p].op = "activate"
                /\ calls'[p].pc \in AfterFinalRecord
                /\ calls'[p].user = calls[p].user
                /\ results' = results
           ELSE /\ calls[p].pc = "s7"
                /\ Len(results') = Len(results) + 1
                /\ results'[Len(results')].op = "activate"
                /\ results'[Len(results')].res = Success
                /\ currentUser' = calls[p].user
                /\ currentUserType' = "student"]_vars

\* activateStudentAccount returned success although one of its best-effort
\* steps had failed; the final record is there
C32_Witness ==
  /\ faults = 1
  /\ Len(results) = 1
  /\ results[1].op = "activate"
  /\ results[1].last = "s7"
  /\ ~results[1].full
  /\ results[1].res = Success
  /\ users[U_Student].exists
  /\ users[U_Student].status = "active"

\* ---------------------------------------------------------------------------
\* C33: the store after an activation in which nothing failed
\* ---------------------------------------------------------------------------

\* in this step caller p's activateStudentAccount returns success, no call of
\* the provider or the store it made has failed, and no other operation
\* overlapped it
ActivationReturnsClean(p) ==
  /\ calls[p].op = "activate"
  /\ calls[p].alone
  /\ calls[p].full
  /\ ~Busy(p)'
  /\ Len(results') = Len(results) + 1
  /\ results'[Len(results')].res = Success
  /\ faults' = faults

\* the store after a complete activation of provisional record d by identity u
Migrated(d, u) ==
  /\ users[u].exists
  /\ users[u].uid = u
  /\ users[u].authUid = u
  /\ users[u].status = "active"
  /\ users[u].userType = "student"
  /\ users[u].name = trim(N_StudentRaw)
  /\ users[u].email = NormalizeEmail(E_StudentRaw)
  /\ users[u].personalId = U_Personal
  /\ ~users[d].exists
  /\ u \in users[U_Personal].students
  /\ d \notin users[U_Personal].students
  /\ ~pendingActivations[EmailKey(NormalizeEmail(E_StudentRaw))].exists

OnlyFailedLogins ==
  /\ results # << >>
  /\ faults = 0
  /\ \A i \in 1..Len(results) :
       /\ results[i].op = "login"
       /\ results[i].res.kind = "failure"
       /\ results[i].res.error \in { "auth/invalid-credential", "no user data" }

\* C34: when login has returned a failure (rejected credentials, or an
\* authenticated identity without a profile record) and the notifications it
\* triggered have been processed, the session has no identity and no role.
C34_FailedLoginLeavesNoSession ==
  (AllProcessed /\ OnlyFailedLogins) => (currentUser = NULL /\ currentUserType = NULL)

\* ---------------------------------------------------------------------------
\* C35: nothing is routed before readiness
\* ---------------------------------------------------------------------------

\* in this step a hashchange or popstate event is handled
EventHandled == hashEvents' = hashEvents - 1

\* C35: the Router takes no guard decision and loads no page before readiness.
\* An event handled before authReady changes nothing of the queue; authReady
\* is only set inside waitForAuth, when AuthManager is initialized or when the
\* timeout fires; _navigate reaches its guards, where the session is read, only
\* with authReady set; and a guard decision, a page load and a current path
\* only exist with authReady set.
C35_NothingRoutedBeforeReady ==
  [][/\ (EventHandled /\ ~authReady) =>
          UNCHANGED << navigationQueue, loopPc, navPc, isNavigating, loads, currentPath >>
     /\ (~authReady /\ authReady') =>
          \/ isInitialized
          \/ initPc = "waiting" /\ initPc' = "done"
          \/ navPc = "waitAuth" /\ navPc' = "guard"
     /\ navPc' \in { "guard", "load" } => authReady'
     /\ lastNav' # NoNav => authReady
     /\ (loads' # << >> \/ currentPath' # NoPath) => authReady'
     /\ isReady' => authReady']_vars

\* the timeout of waitForAuth has fired: the Router has taken a guard decision
\* with authReady set although AuthManager is not initialized
C35_Witness ==
  /\ lastNav # NoNav
  /\ authReady
  /\ ~isInitialized

\* ---------------------------------------------------------------------------
\* C36: the last path requested is the one displayed in the end
\* ---------------------------------------------------------------------------

\* the path of the latest call of navigate made while the running _navigate
\* has been under way
LatestRequest == NormalizePath(arrivedNow[Len(arrivedNow)])

\* C36: a request is discarded only when it is the path in flight or the tail
\* of the queue, never because it is the path displayed before: so, while a
\* _navigate runs, the latest path requested is the one in flight or the tail
\* of the queue, it is processed last, and when the queue is empty and the
\* processor idle currentPath is the last path requested.  The path requested
\* has a page and the session is permitted to see it.
C36_LatestRequestIsProcessedLast ==
  (/\ isNavigating /\ arrivedNow # << >>
   /\ matchRoute(LatestRequest).route # NoPath
   /\ GuardDecision(LatestRequest, isAuthenticated, currentUserType).kind = "proceed") =>
     \/ LatestRequest = navPath
     \/ /\ navigationQueue # << >>
        /\ NormalizePath(navigationQueue[Len(navigationQueue)]) = LatestRequest

\* ---------------------------------------------------------------------------
\* C37: no redirect leads to a redirect
\* ---------------------------------------------------------------------------

\* C37: with the session as it was when _navigate redirected, the target of
\* the redirect (the login path or a dashboard) is not redirected itself: the
\* navigation settles after one redirect at most, for every path and for the
\* sessions without identity, with role personal, with role student and with
\* an identity without role.
C37_RedirectTargetIsNotRedirected ==
  lastNav.kind = "redirect" =>
    /\ lastNav.to \in { P_Login, P_PersonalDashboard, P_StudentDashboard }
    /\ lastNav.to # lastNav.path
    /\ GuardDecision(lastNav.to, lastNav.auth, lastNav.type).kind = "proceed"

\* _navigate has redirected a session that has an identity and no role
C37_Witness ==
  /\ lastNav.kind = "redirect"
  /\ lastNav.auth
  /\ lastNav.type = NULL
  /\ lastNav.to = P_StudentDashboard

\* ---------------------------------------------------------------------------
\* C38: the source of the final record
\* ---------------------------------------------------------------------------

\* in this step caller p's activateStudentAccount writes the final record
FinalRecordWrite(p) ==
  /\ calls[p].op = "activate"
  /\ calls[p].pc = "s4"
  /\ calls'[p].pc = "s5"

\* C38: activateStudentAccount writes a final active record only from a source
\* record that is a student's, has status pending and is registered for the
\* normalized address the caller supplied.
C38_FinalRecordFromOwnPendingRecord ==
  [][\A p \in Procs :
       FinalRecordWrite(p) =>
         /\ calls[p].data.exists
         /\ calls[p].data.userType = "student"
         /\ calls[p].data.status = "pending"
         /\ calls[p].data.email = NormalizeEmail(calls[p].email)]_vars

\* ---------------------------------------------------------------------------
\* C39: deleteStudent and an activation of the same student
\* ---------------------------------------------------------------------------

\* deleteStudent, called by the trainer for the provisional record d while it
\* was pending, has returned success
DeletedPending(d) ==
  \E i \in 1..Len(results) :
    /\ results[i].op = "delete"
    /\ results[i].docId = d
    /\ results[i].user = U_Personal
    /\ results[i].begin = 0
    /\ results[i].res = Success

\* the identities with a profile record made from the student's provisional
\* record
DerivedFrom(d) ==
  { u \in DocIds \ { d, U_Personal, U_Inactive } :
      users[u].exists /\ users[u].email = NormalizeEmail(E_StudentRaw) }

\* C39: once deleteStudent has returned success for a pending student, the
\* provisional record and every record made from it are gone and the trainer's
\* list names neither, whatever the interleaving with an activateStudentAccount
\* for the same student.
C39_DeletedStudentLeavesNothing ==
  DeletedPending(ProvIds[1]) =>
    /\ ~users[ProvIds[1]].exists
    /\ DerivedFrom(ProvIds[1]) = {}
    /\ users[U_Personal].students \cap { ProvIds[1], U_Student } = {}

\* ---------------------------------------------------------------------------
\* C40: no role without an identity
\* ---------------------------------------------------------------------------

\* C40: in every state of the session the role is absent whenever the identity
\* is absent, whatever the interleaving of the notifications, whose fetches
\* may still be in flight, with login, logout and signup.
C40_NoRoleWithoutIdentity ==
  currentUser = NULL => currentUserType = NULL

====
